---- MODULE Spec2Model ----
(***************************************************************************)
(* Adaptive practice engine of the coaching application: the relational    *)
(* store (questions, practice sessions, attempts, performance summaries),  *)
(* the request handlers of controllers/students.py that write it, and the  *)
(* read-only selection algorithms of services/adaptive.py.                 *)
(***************************************************************************)
EXTENDS Integers, Sequences, FiniteSets, TLC

VARIABLES
    questions,   \* questions table: id -> row
    sessions,    \* practice_sessions table: sequence of rows, id = index
    attempts,    \* attempts table: sequence of rows in creation order
    summaries,   \* performance_summaries table: sequence of rows
    gamification, \* streaks and points tables (sequences of rows), badges table
    lecture_topics, \* lecture_topics table: set of <<lecture_id, syllabus_id>>
    recommendations, \* practice_recommendations table: sequence of rows
    now,         \* current day number (datetime.utcnow truncated to days)
    resp,        \* the last response returned by a handler or engine call
    req          \* the requests in flight: worker -> request-local state

vars == <<questions, sessions, attempts, summaries, gamification, lecture_topics,
          recommendations, now, resp, req>>

(***************************************************************************)
(* Bounds of the model                                                     *)
(***************************************************************************)
MaxRuns == 2          \* runs of identical attempts in a drawn attempt history
MaxSessions == 2      \* practice_sessions rows created in one behaviour
MaxAttempts == 3      \* submit_attempt requests accepted in one behaviour

Students == {1, 2}
Workers == {1, 2}
RunLens == {1, 30}                   \* run lengths around the 30-attempt window
WindowRunLens == {1, 2, 3, 4, 20}    \* run lengths around the 20-attempt window

None == 0             \* Python None where a question id is expected
NoTopic == "None"     \* Python None where a topic is expected

(***************************************************************************)
(* The question bank (content authoring is outside the engine)             *)
(***************************************************************************)
Q(subject, chapter, topic, difficulty, active) ==
    [subject |-> subject, chapter |-> chapter, topic |-> topic,
     difficulty |-> difficulty, correct_answer |-> "A", hint |-> "",
     is_active |-> active]

Bank ==
    <<Q("Physics", "Mechanics", "Kinematics", 1, TRUE),
      [Q("Physics", "Mechanics", "Kinematics", 3, TRUE)
          EXCEPT !.hint = "v = u + at"],
      Q("Physics", "Optics", "Lenses", 5, TRUE),
      Q("Chemistry", "Kinetics", "Kinematics", 2, TRUE),
      Q("Physics", "Optics", "Lenses", 4, FALSE)>>

QIds == DOMAIN Bank
Subjects == {"Physics", "Chemistry"}

(***************************************************************************)
(* Sequence helpers                                                        *)
(***************************************************************************)
Range(s) == {s[i] : i \in DOMAIN s}

\* order_by(desc(created_at)).limit(n): the n most recent rows of s
LastN(s, n) == IF Len(s) <= n THEN s ELSE SubSeq(s, Len(s) - n + 1, Len(s))

RECURSIVE SumSeq(_)
SumSeq(s) == IF s = <<>> THEN 0 ELSE Head(s) + SumSeq(Tail(s))

CountIn(s, P(_)) == Cardinality({i \in DOMAIN s : P(s[i])})

(***************************************************************************)
(* services/adaptive.py: AdaptiveEngine                                    *)
(***************************************************************************)
\* an empty scope list is falsy: the filter is not applied
InScope(value, scope) == scope = {} \/ value \in scope

_get_recent_questions(student_id, limit) ==
    LET mine == SelectSeq(attempts, LAMBDA a : a.student_id = student_id)
    IN  {a.question_id : a \in Range(LastN(mine, limit))}

\* int(x) of a float taken for rounding up
FloorDiv_ceil(a, b) == (a + b - 1) \div b

\* int(x) of a float taken for rounding to the nearest integer
FloorDiv_round(a, b) == (2 * a + b) \div (2 * b)

\* int(sum / len): truncation of a non-negative quotient
FloorDiv(a, b) == a \div b

\* the fetched window: the student's attempts in scope, most recent 20
recent_attempts(student_id, subjects, topics) ==
    LastN(SelectSeq(attempts, LAMBDA a :
              /\ a.student_id = student_id
              /\ InScope(questions[a.question_id].subject, subjects)
              /\ InScope(questions[a.question_id].topic, topics)), 20)

\* the correct count taken over a full window of 20
accuracy_of_20(window) ==
    <<CountIn(window, LAMBDA a : a.is_correct), 20>>

\* accuracy = correct_count / len(recent_attempts), as the pair
\* <<numerator, denominator>> of the quotient
accuracy(window) ==
    <<CountIn(window, LAMBDA a : a.is_correct), Len(window)>>

\* the comparisons accuracy >= 0.8 and accuracy <= 0.4: for a denominator of
\* at most 20 the float quotient equals the literal exactly when the
\* rational does, so the comparison is the rational one.
_get_target_difficulty(student_id, subjects, topics) ==
    LET window == recent_attempts(student_id, subjects, topics)
        n == Len(window)
        correct_count == accuracy(window)[1]
        len == accuracy(window)[2]
        diff_sum == SumSeq([i \in 1..n |->
                        questions[window[i].question_id].difficulty])
        int_avg == FloorDiv(diff_sum, n)
    IN  IF n = 0 THEN 2
        ELSE IF 5 * correct_count >= 4 * len
             THEN (IF int_avg + 1 < 5 THEN int_avg + 1 ELSE 5)
        ELSE IF 5 * correct_count <= 2 * len
             THEN (IF int_avg - 1 > 1 THEN int_avg - 1 ELSE 1)
        ELSE int_avg

\* the count taken over an inner join: topics never attempted have no group
_get_least_covered_topic_inner(student_id, subjects) ==
    LET rows == {i \in DOMAIN questions : InScope(questions[i].subject, subjects)}
        attempt_count(t) == CountIn(attempts, LAMBDA a :
                                /\ a.student_id = student_id
                                /\ a.question_id \in rows
                                /\ questions[a.question_id].topic = t)
        groups == {t \in {questions[i].topic : i \in rows} : attempt_count(t) > 0}
    IN  IF groups = {} THEN {NoTopic}
        ELSE {t \in groups : \A u \in groups : attempt_count(t) <= attempt_count(u)}

\* group_by(Question.topic) over the outer join of questions with the
\* student's attempts; order_by('attempt_count').first() returns any group
\* with the minimal count.
_get_least_covered_topic(student_id, subjects) ==
    LET rows == {i \in DOMAIN questions : InScope(questions[i].subject, subjects)}
        groups == {questions[i].topic : i \in rows}
        attempt_count(t) == CountIn(attempts, LAMBDA a :
                                /\ a.student_id = student_id
                                /\ a.question_id \in rows
                                /\ questions[a.question_id].topic = t)
    IN  IF groups = {} THEN {NoTopic}
        ELSE {t \in groups : \A u \in groups : attempt_count(t) <= attempt_count(u)}

\* the set of topics the lookup can return: the loop keeps the first row
\* with the strictly lowest accuracy below 1.0, in the row order of the
\* store, which is unspecified.
_get_weakest_topic(student_id, subjects) ==
    LET cutoff_date == now - 30
        joined(t) == SelectSeq(attempts, LAMBDA a :
                        /\ a.student_id = student_id
                        /\ a.created_at >= cutoff_date
                        /\ InScope(questions[a.question_id].subject, subjects)
                        /\ questions[a.question_id].topic = t)
        total(t) == Len(joined(t))
        correct(t) == CountIn(joined(t), LAMBDA a : a.is_correct)
        topic_stats == {t \in {questions[i].topic : i \in DOMAIN questions} :
                           total(t) >= 3}
        below == {t \in topic_stats : correct(t) < total(t)}
    IN  IF topic_stats = {} THEN _get_least_covered_topic(student_id, subjects)
        ELSE IF below = {} THEN {NoTopic}
        ELSE {t \in below : \A u \in below :
                 correct(t) * total(u) <= correct(u) * total(t)}

\* the lookup without its accuracy threshold
_get_revision_questions_attempted(student_id, subjects, chapters, topics) ==
    {q \in DOMAIN questions :
        /\ InScope(questions[q].subject, subjects)
        /\ InScope(questions[q].chapter, chapters)
        /\ InScope(questions[q].topic, topics)
        /\ CountIn(attempts, LAMBDA a : /\ a.student_id = student_id
                                        /\ a.question_id = q) >= 2}

_get_revision_questions(student_id, subjects, chapters, topics) ==
    LET rows(q) == SelectSeq(attempts, LAMBDA a :
                      /\ a.student_id = student_id
                      /\ a.question_id = q)
        total(q) == Len(rows(q))
        correct(q) == CountIn(rows(q), LAMBDA a : a.is_correct)
    IN  {q \in DOMAIN questions :
            /\ InScope(questions[q].subject, subjects)
            /\ InScope(questions[q].chapter, chapters)
            /\ InScope(questions[q].topic, topics)
            /\ total(q) >= 2
            /\ 10 * correct(q) < 6 * total(q)}

\* no narrowing at all: every row of the questions table is a candidate
mode_pools_unfiltered(student_id, mode, subjects, chapters, topics) ==
    {DOMAIN questions}

\* the candidate pools after the mode-specific narrowing, one per outcome of
\* the topic lookup
mode_pools(student_id, mode, subjects, chapters, topics) ==
    LET active == {q \in DOMAIN questions : questions[q].is_active}
        by_subject == {q \in active : questions[q].subject \in subjects}
    IN  IF mode = "adaptive"
        THEN {IF weak_topic # NoTopic
              THEN {q \in active : questions[q].topic = weak_topic}
              ELSE IF subjects # {} THEN by_subject ELSE active
              : weak_topic \in _get_weakest_topic(student_id, subjects)}
        ELSE IF mode = "topic" /\ topics # {}
        THEN {{q \in active : questions[q].topic \in topics}}
        ELSE IF mode \in {"chapter", "multi_chapter"} /\ chapters # {}
        THEN {{q \in active : questions[q].chapter \in chapters}}
        ELSE IF mode = "multi_subject" /\ subjects # {}
        THEN {by_subject}
        ELSE IF mode = "revision"
        THEN LET revision_questions ==
                     _get_revision_questions(student_id, subjects, chapters, topics)
             IN  IF revision_questions # {}
                 THEN {active \cap revision_questions}
                 ELSE IF subjects # {} THEN {by_subject} ELSE {active}
        ELSE {active}

\* the recency filter left out of the query
exclude_recent_none(pool, recent_questions) == pool

\* query.filter(~Question.id.in_(recent_questions))
exclude_recent(pool, recent_questions) == pool \ recent_questions

\* the range built without looking at the ends of the scale
difficulty_range_unguarded(target_difficulty) ==
    {target_difficulty - 1, target_difficulty, target_difficulty + 1}

difficulty_range(target_difficulty) ==
    {target_difficulty}
    \cup (IF target_difficulty > 1 THEN {target_difficulty - 1} ELSE {})
    \cup (IF target_difficulty < 5 THEN {target_difficulty + 1} ELSE {})

\* a recently seen candidate served again when no fresh one is left
pick_question_repeat(student_id, pool, subjects, topics) ==
    LET query == exclude_recent(pool, _get_recent_questions(student_id, 30))
    IN  IF query # {} THEN query
        ELSE IF pool # {} THEN pool
        ELSE {None}

\* the choice made over all fresh candidates, with no preferred range
pick_question_flat(student_id, pool, subjects, topics) ==
    LET query == exclude_recent(pool, _get_recent_questions(student_id, 30))
    IN  IF query # {} THEN query ELSE {None}

\* steps 3 to 7 on one narrowed pool: the set of values random.choice can
\* return, None when the pool is empty
pick_question(student_id, pool, subjects, topics) ==
    LET recent_questions == _get_recent_questions(student_id, 30)
        query == exclude_recent(pool, recent_questions)
        target_difficulty == _get_target_difficulty(student_id, subjects, topics)
        preferred_questions ==
            {q \in query : questions[q].difficulty
                              \in difficulty_range(target_difficulty)}
    IN  IF preferred_questions # {} THEN preferred_questions
        ELSE IF query # {} THEN query
        ELSE {None}

\* the set of values get_next_question can return
get_next_question(student_id, mode, subjects, chapters, topics) ==
    UNION {pick_question(student_id, pool, subjects, topics) :
             pool \in mode_pools(student_id, mode, subjects, chapters, topics)}

(***************************************************************************)
(* services/recommendations.py: RecommendationService (read path)          *)
(***************************************************************************)
\* Rows are kept in creation order and created_at is taken at insertion, so
\* among the attempts of one student a later created_at is a later position:
\* func.max(Attempt.created_at) of a group is its last position, and
\* Attempt.created_at > last_attempt selects the positions after it.
MaxOf(S) == CHOOSE i \in S : \A j \in S : j <= i

\* the student's incorrect attempts on a question since the cutoff date
incorrect_attempts(student_id, question_id) ==
    {i \in DOMAIN attempts :
        /\ attempts[i].student_id = student_id
        /\ attempts[i].question_id = question_id
        /\ ~attempts[i].is_correct
        /\ attempts[i].created_at >= now - 30}

RECURSIVE OrderByLastAttemptDesc(_, _)
\* order_by(desc('last_attempt')) of the grouped rows
OrderByLastAttemptDesc(student_id, group) ==
    IF group = {} THEN <<>>
    ELSE LET q == CHOOSE x \in group : \A y \in group :
                     MaxOf(incorrect_attempts(student_id, y))
                        <= MaxOf(incorrect_attempts(student_id, x))
         IN  <<q>> \o OrderByLastAttemptDesc(student_id, group \ {q})

\* any correct attempt on the question, whenever it was made
recent_correct_any(student_id, question_id, last_attempt) ==
    \E i \in DOMAIN attempts :
        /\ attempts[i].student_id = student_id
        /\ attempts[i].question_id = question_id
        /\ attempts[i].is_correct

\* a correct attempt on the question created after last_attempt
recent_correct(student_id, question_id, last_attempt) ==
    \E i \in DOMAIN attempts :
        /\ attempts[i].student_id = student_id
        /\ attempts[i].question_id = question_id
        /\ attempts[i].is_correct
        /\ i > last_attempt

\* the list returned: question id and the count shown in the reason
\* 'Incorrect n time(s)', most recently missed first
get_revision_recommendations(student_id, limit) ==
    LET grouped == {q \in DOMAIN questions : incorrect_attempts(student_id, q) # {}}
        ordered == OrderByLastAttemptDesc(student_id, grouped)
        incorrect_questions ==
            IF Len(ordered) <= limit THEN ordered ELSE SubSeq(ordered, 1, limit)
        still == SelectSeq(incorrect_questions, LAMBDA q :
                    ~recent_correct(student_id, q,
                                    MaxOf(incorrect_attempts(student_id, q))))
    IN  [k \in DOMAIN still |->
            [question_id |-> still[k],
             attempts |-> Cardinality(incorrect_attempts(student_id, still[k]))]]

(***************************************************************************)
(* models/gamification.py and the gamification update of submit_attempt    *)
(***************************************************************************)
NoGamification == [streaks |-> <<>>, points |-> <<>>, badges |-> {}]

\* the rows one submission writes: the student's streak and points rows
\* (none when the row is left as read), whether each is an INSERT, and the
\* badge codes awarded
NoWrite ==
    [streak |-> <<>>, streak_insert |-> FALSE,
     points |-> <<>>, points_insert |-> FALSE, badges |-> {}]

\* Streak.update_streak on a row loaded from the store
update_streak(row, activity_date) ==
    LET moved ==
            IF activity_date - row.last_active_date = 1
            THEN [row EXCEPT !.current_streak = row.current_streak + 1,
                             !.last_active_date = activity_date]
            ELSE [row EXCEPT !.current_streak = 1,
                             !.last_active_date = activity_date]
    IN  IF activity_date = row.last_active_date THEN row
        ELSE [moved EXCEPT !.best_streak =
                 IF moved.current_streak > row.best_streak
                 THEN moved.current_streak ELSE row.best_streak]

\* the points of one submission: 2 for a first attempt, 5 more when it is
\* correct, 3 for a correct second attempt
award(is_correct, is_first_attempt) ==
    (IF is_first_attempt THEN 2 ELSE 0)
    + (IF is_correct THEN (IF is_first_attempt THEN 5 ELSE 3) ELSE 0)

\* Points.add_points on a row loaded from the store
add_points(row, points) ==
    [row EXCEPT !.points_total = row.points_total + points,
                !.points_this_week = row.points_this_week + points,
                !.points_this_month = row.points_this_month + points]

\* the streak and count badges of _check_and_award_badges; total_attempts
\* counts the attempt of the running transaction.  The FAST_SOLVER badge
\* needs 20 timed correct attempts and time_taken is not part of the model.
_check_and_award_badges(g, streak, student_id, total_attempts) ==
    {c \in (IF streak.current_streak = 7 THEN {"7D_STREAK"}
            ELSE IF streak.current_streak = 30 THEN {"30D_STREAK"} ELSE {})
           \cup (IF total_attempts = 100 THEN {"100_Q_SOLVED"} ELSE {}) :
        <<student_id, c>> \notin g.badges}

\* _update_gamification.  A Streak() or Points() created here has None in
\* its counters until the INSERT applies the column defaults: update_streak
\* on a new row sets current_streak and last_active_date and then raises on
\* the comparison with best_streak, add_points on a new row raises at once;
\* the except clause of _update_gamification ends the update there and the
\* new row is inserted with the defaults for what was not set.
_update_gamification(g, att, student_id, is_correct, is_first_attempt, today) ==
    LET streak == SelectSeq(g.streaks, LAMBDA r : r.student_id = student_id)
        points == SelectSeq(g.points, LAMBDA r : r.student_id = student_id)
        total_attempts ==
            Cardinality({i \in DOMAIN att : att[i].student_id = student_id}) + 1
        new_streak == [student_id |-> student_id, current_streak |-> 1,
                       best_streak |-> 0, last_active_date |-> today]
        new_points == [student_id |-> student_id, points_total |-> 0,
                       points_this_week |-> 0, points_this_month |-> 0]
        updated == update_streak(streak[1], today)
        streak_write == IF updated = streak[1] THEN <<>> ELSE <<updated>>
        gained == award(is_correct, is_first_attempt)
    IN  IF streak = <<>>
        THEN [NoWrite EXCEPT !.streak = <<new_streak>>, !.streak_insert = TRUE]
        ELSE IF points = <<>>
        THEN [NoWrite EXCEPT !.streak = streak_write,
                 !.points = <<new_points>>, !.points_insert = TRUE,
                 !.badges = IF gained # 0 THEN {}
                            ELSE _check_and_award_badges(g, updated, student_id,
                                                         total_attempts)]
        ELSE [NoWrite EXCEPT !.streak = streak_write,
                 !.points = IF gained = 0 THEN <<>>
                            ELSE <<add_points(points[1], gained)>>,
                 !.badges = _check_and_award_badges(g, updated, student_id,
                                                    total_attempts)]

\* the gamification tables after the flush of one submission's rows
WriteGamification(g, student_id, write) ==
    LET put(table, rows, insert) ==
            IF rows = <<>> THEN table
            ELSE IF insert THEN Append(table, rows[1])
            ELSE [i \in DOMAIN table |->
                     IF table[i].student_id = student_id THEN rows[1] ELSE table[i]]
    IN  [streaks |-> put(g.streaks, write.streak, write.streak_insert),
         points |-> put(g.points, write.points, write.points_insert),
         badges |-> g.badges \cup {<<student_id, c>> : c \in write.badges}]

\* unique=True on streaks.student_id and on points.student_id
GamificationUnique(g) ==
    /\ \A i, j \in DOMAIN g.streaks :
          g.streaks[i].student_id = g.streaks[j].student_id => i = j
    /\ \A i, j \in DOMAIN g.points :
          g.points[i].student_id = g.points[j].student_id => i = j

(***************************************************************************)
(* Rows and responses                                                      *)
(***************************************************************************)
AttemptRow(student_id, question_id, session_id, is_correct, attempt_no, day) ==
    [student_id |-> student_id, question_id |-> question_id,
     session_id |-> session_id, is_correct |-> is_correct,
     attempt_no |-> attempt_no, created_at |-> day]

NoResp ==
    [op |-> "none", status |-> "", student_id |-> 0, session_id |-> 0,
     question_id |-> 0, mode |-> "", subjects |-> {}, chapters |-> {},
     topics |-> {}, pool |-> {}, value |-> 0,
     correct |-> FALSE, attempt_no |-> 0, attempts_remaining |-> 0,
     total_questions |-> 0, correct_answers |-> 0, accuracy |-> <<0, 1>>,
     topic |-> "", limit |-> 0, list |-> <<>>, lecture_id |-> 0,
     failed |-> FALSE, hint |-> "", solution |-> ""]

Request(op, pc, student_id, question_id, session_id, is_correct, existing, pending) ==
    [op |-> op, pc |-> pc, student_id |-> student_id, question_id |-> question_id,
     session_id |-> session_id, is_correct |-> is_correct,
     existing_attempts |-> existing, pending |-> pending,
     data |-> [mode |-> "", subjects |-> {}, chapters |-> {}, topics |-> {}]]

NoPending == [insert |-> FALSE, index |-> 0, row |-> <<>>, gamification |-> NoWrite]

NoReq == Request("none", "idle", 0, 0, 0, FALSE, 0, NoPending)

Scopes ==
    {[subjects |-> {}, chapters |-> {}, topics |-> {}],
     [subjects |-> {"Physics"}, chapters |-> {}, topics |-> {}],
     [subjects |-> {}, chapters |-> {"Optics"}, topics |-> {}],
     [subjects |-> {"Physics"}, chapters |-> {}, topics |-> {"Kinematics"}]}

(***************************************************************************)
(* models/practice_session.py, models/performance.py                       *)
(***************************************************************************)
SessionRow(student_id, mode, subjects, chapters, topics) ==
    [student_id |-> student_id, mode |-> mode, subjects |-> subjects,
     chapters |-> chapters, topics |-> topics, is_active |-> TRUE,
     total_questions |-> 0, correct_answers |-> 0]

\* the rows of the relationship PracticeSession.attempts
session_attempts(att, session_id) ==
    SelectSeq(att, LAMBDA a : a.session_id = session_id)

\* end_session without the recount of the final stats
end_session_norecount(row, att, session_id) == [row EXCEPT !.is_active = FALSE]

\* end_session that leaves the session active
end_session_stillactive(row, att, session_id) ==
    [row EXCEPT !.total_questions = Len(session_attempts(att, session_id)),
                !.correct_answers =
                    CountIn(session_attempts(att, session_id), LAMBDA a : a.is_correct)]

\* PracticeSession.end_session on the row with the given id
end_session(row, att, session_id) ==
    [row EXCEPT !.is_active = FALSE,
                !.total_questions = Len(session_attempts(att, session_id)),
                !.correct_answers =
                    CountIn(session_attempts(att, session_id), LAMBDA a : a.is_correct)]

\* a PerformanceSummary() as the INSERT stores it when only student_id and
\* subject were assigned: the column defaults
NewSummary(student_id, subject) ==
    [student_id |-> student_id, subject |-> subject, total_attempts |-> 0,
     correct_attempts |-> 0, accuracy |-> <<0, 1>>]

\* PerformanceSummary.update_performance on a loaded row; accuracy is the
\* quotient <<numerator, denominator>>
update_performance(row, new_attempt_correct) ==
    LET total == row.total_attempts + 1
        correct == row.correct_attempts + (IF new_attempt_correct THEN 1 ELSE 0)
    IN  [row EXCEPT !.total_attempts = total, !.correct_attempts = correct,
                    !.accuracy = IF total > 0 THEN <<correct, total>> ELSE <<0, 1>>]

\* _update_performance_summary: the summaries table as the transaction will
\* write it.  On a new PerformanceSummary() total_attempts is still None when
\* update_performance runs `self.total_attempts += 1`; the TypeError is
\* caught and logged, and the row is inserted with the column defaults.
_update_performance_summary(sums, student_id, subject, is_correct) ==
    LET found == {i \in DOMAIN sums : /\ sums[i].student_id = student_id
                                      /\ sums[i].subject = subject}
    IN  IF found = {}
        THEN Append(sums, NewSummary(student_id, subject))
        ELSE LET i == CHOOSE j \in found : \A k \in found : j <= k
             IN  [sums EXCEPT ![i] = update_performance(sums[i], is_correct)]

\* student_id is declared unique=True, and (student_id, subject) is a
\* UniqueConstraint: the flush raises IntegrityError when either is broken
SummariesUnique(sums) ==
    \A i, j \in DOMAIN sums : sums[i].student_id = sums[j].student_id => i = j

(***************************************************************************)
(* controllers/students.py: the handlers, one request at a time            *)
(***************************************************************************)
valid_modes == {"adaptive", "topic", "chapter", "multi_chapter", "multi_subject",
                "revision"}

\* chosen_answer.strip().upper() on the answers the model submits
Normalize(answer) ==
    CASE answer = "A" -> "A"
      [] answer = " a " -> "A"
      [] answer = "B" -> "B"
      [] answer = " " -> ""

Answers == {" a ", "B", " "}

StartRequests ==
    {[mode |-> "adaptive", subjects |-> {"Physics"}, chapters |-> {}, topics |-> {}],
     [mode |-> "practice", subjects |-> {}, chapters |-> {}, topics |-> {}]}

ActiveSessions(ses, student_id) ==
    {i \in DOMAIN ses : ses[i].student_id = student_id /\ ses[i].is_active}

\* the count restricted to the correct attempts
ExistingAttempts_correct(att, student_id, question_id, session_id) ==
    CountIn(att, LAMBDA a : /\ a.student_id = student_id
                            /\ a.question_id = question_id
                            /\ a.session_id = session_id
                            /\ a.is_correct)

\* Attempt.query.filter_by(student_id, question_id, session_id).count()
ExistingAttempts(att, student_id, question_id, session_id) ==
    CountIn(att, LAMBDA a : /\ a.student_id = student_id
                            /\ a.question_id = question_id
                            /\ a.session_id = session_id)

\* an error payload: success false and a message
Rejected(op, status) == [NoResp EXCEPT !.op = op, !.status = status]

start_practice_session(student_id, data) ==
    /\ IF data.mode \notin valid_modes
       THEN /\ resp' = Rejected("start_practice_session", "invalid_mode")
            /\ UNCHANGED sessions
       ELSE /\ Len(sessions) < MaxSessions
            /\ \E ended \in
                 (IF ActiveSessions(sessions, student_id) = {}
                  THEN {sessions}
                  ELSE {[sessions EXCEPT ![i] = end_session(sessions[i], attempts, i)] :
                           i \in ActiveSessions(sessions, student_id)}) :
                 sessions' = Append(ended,
                                SessionRow(student_id, data.mode, data.subjects,
                                           data.chapters, data.topics))
            /\ resp' = [NoResp EXCEPT !.op = "start_practice_session", !.status = "ok",
                                      !.session_id = Len(sessions) + 1,
                                      !.mode = data.mode]
    /\ UNCHANGED <<questions, gamification, lecture_topics, recommendations, attempts, summaries, now, req>>

end_practice_session(student_id, session_id) ==
    /\ IF session_id \notin DOMAIN sessions
          \/ sessions[session_id].student_id # student_id
       THEN /\ resp' = Rejected("end_practice_session", "session_not_found")
            /\ UNCHANGED sessions
       ELSE IF ~sessions[session_id].is_active
       THEN /\ resp' = Rejected("end_practice_session", "already_ended")
            /\ UNCHANGED sessions
       ELSE /\ sessions' = [sessions EXCEPT ![session_id] =
                               end_session(sessions[session_id], attempts, session_id)]
            /\ resp' = [NoResp EXCEPT !.op = "end_practice_session", !.status = "ok",
                           !.total_questions = sessions'[session_id].total_questions,
                           !.correct_answers = sessions'[session_id].correct_answers]
    /\ UNCHANGED <<questions, gamification, lecture_topics, recommendations, attempts, summaries, now, req>>

\* submit_attempt with the gamification update made before the limit check
\* the solution sent with every incorrect attempt
response_data_eager(question, is_correct, attempt_no) ==
    [NoResp EXCEPT !.op = "submit_attempt", !.status = "ok",
        !.correct = is_correct,
        !.attempt_no = attempt_no,
        !.attempts_remaining = 2 - attempt_no,
        !.hint = IF ~is_correct /\ attempt_no = 1 THEN question.hint ELSE "",
        !.solution = IF ~is_correct THEN question.correct_answer ELSE ""]

\* lines 296-326: the payload of an accepted submission.  A key left out of
\* the payload is the empty string, as is a hint that is None or empty; the
\* solution carries the correct answer whether or not the LLM service
\* writes it.
response_data(question, is_correct, attempt_no) ==
    [NoResp EXCEPT !.op = "submit_attempt", !.status = "ok",
        !.correct = is_correct,
        !.attempt_no = attempt_no,
        !.attempts_remaining = 2 - attempt_no,
        !.hint = IF ~is_correct /\ attempt_no = 1 THEN question.hint ELSE "",
        !.solution = IF ~is_correct /\ attempt_no = 2
                     THEN question.correct_answer ELSE ""]

submit_attempt_reward_first(student_id, question_id, chosen_answer, session_id) ==
    LET existing_attempts ==
            ExistingAttempts(attempts, student_id, question_id, session_id)
        is_correct ==
            Normalize(chosen_answer) = Normalize(questions[question_id].correct_answer)
        written == _update_performance_summary(summaries, student_id,
                       questions[question_id].subject, is_correct)
        rewarded == WriteGamification(gamification, student_id,
                        _update_gamification(gamification, attempts, student_id,
                                             is_correct, existing_attempts = 0, now))
    IN  /\ IF question_id = None \/ Normalize(chosen_answer) = "" \/ session_id = None
           THEN /\ resp' = Rejected("submit_attempt", "required")
                /\ UNCHANGED <<attempts, summaries, gamification>>
           ELSE IF question_id \notin DOMAIN questions
           THEN /\ resp' = Rejected("submit_attempt", "question_not_found")
                /\ UNCHANGED <<attempts, summaries, gamification>>
           ELSE IF session_id \notin ActiveSessions(sessions, student_id)
           THEN /\ resp' = Rejected("submit_attempt", "session_not_found")
                /\ UNCHANGED <<attempts, summaries, gamification>>
           ELSE IF existing_attempts >= 2
           THEN /\ resp' = Rejected("submit_attempt", "max_attempts")
                /\ gamification' = rewarded
                /\ UNCHANGED <<attempts, summaries>>
           ELSE IF ~SummariesUnique(written) \/ ~GamificationUnique(rewarded)
           THEN \* IntegrityError at commit: rollback, status 500
                /\ resp' = Rejected("submit_attempt", "failed")
                /\ UNCHANGED <<attempts, summaries, gamification>>
           ELSE /\ Len(attempts) < MaxAttempts
                /\ attempts' = Append(attempts,
                                  AttemptRow(student_id, question_id, session_id,
                                             is_correct, existing_attempts + 1, now))
                /\ summaries' = written
                /\ gamification' = rewarded
                /\ resp' = response_data(questions[question_id], is_correct,
                                          existing_attempts + 1)
        /\ UNCHANGED <<questions, lecture_topics, recommendations, sessions, now, req>>

submit_attempt(student_id, question_id, chosen_answer, session_id) ==
    LET existing_attempts ==
            ExistingAttempts(attempts, student_id, question_id, session_id)
        is_correct ==
            Normalize(chosen_answer) = Normalize(questions[question_id].correct_answer)
        written == _update_performance_summary(summaries, student_id,
                       questions[question_id].subject, is_correct)
        rewarded == WriteGamification(gamification, student_id,
                        _update_gamification(gamification, attempts, student_id,
                                             is_correct, existing_attempts = 0, now))
    IN  /\ IF question_id = None \/ Normalize(chosen_answer) = "" \/ session_id = None
           THEN /\ resp' = Rejected("submit_attempt", "required")
                /\ UNCHANGED <<attempts, summaries, gamification>>
           ELSE IF question_id \notin DOMAIN questions
           THEN /\ resp' = Rejected("submit_attempt", "question_not_found")
                /\ UNCHANGED <<attempts, summaries, gamification>>
           ELSE IF session_id \notin ActiveSessions(sessions, student_id)
           THEN /\ resp' = Rejected("submit_attempt", "session_not_found")
                /\ UNCHANGED <<attempts, summaries, gamification>>
           ELSE IF existing_attempts >= 2
           THEN /\ resp' = Rejected("submit_attempt", "max_attempts")
                /\ UNCHANGED <<attempts, summaries, gamification>>
           ELSE IF ~SummariesUnique(written) \/ ~GamificationUnique(rewarded)
           THEN \* IntegrityError at commit: rollback, status 500
                /\ resp' = Rejected("submit_attempt", "failed")
                /\ UNCHANGED <<attempts, summaries, gamification>>
           ELSE /\ Len(attempts) < MaxAttempts
                /\ attempts' = Append(attempts,
                                  AttemptRow(student_id, question_id, session_id,
                                             is_correct, existing_attempts + 1, now))
                /\ summaries' = written
                /\ gamification' = rewarded
                /\ resp' = response_data(questions[question_id], is_correct,
                                          existing_attempts + 1)
        /\ UNCHANGED <<questions, lecture_topics, recommendations, sessions, now, req>>

Init ==
    /\ questions = Bank
    /\ sessions = <<>>
    /\ attempts = <<>>
    /\ summaries = <<>>
    /\ gamification = NoGamification
    /\ lecture_topics = {}
    /\ recommendations = <<>>
    /\ now = 31
    /\ resp = NoResp
    /\ req = [w \in Workers |-> NoReq]

\* the submissions <<student_id, question_id, chosen_answer>> the model makes:
\* right and wrong answers to a Physics and a Chemistry question, a second
\* student, an unknown question and a blank answer
SubmitCalls ==
    ({1} \X {2, 4} \X {" a ", "B"})
    \cup {<<2, 2, "B">>, <<1, 6, "B">>, <<1, 2, " ">>}

\* a session in mode 'topic' requested with an empty topics list
EmptyTopicRequest == [mode |-> "topic", subjects |-> {}, chapters |-> {}, topics |-> {}]

\* the session requests <<student_id, data>> the model makes
StartCalls == ({1} \X StartRequests) \cup {<<2, EmptyTopicRequest>>}

Next ==
    \/ \E call \in StartCalls : start_practice_session(call[1], call[2])
    \/ \E s \in Students, id \in 1..MaxSessions : end_practice_session(s, id)
    \/ \E call \in SubmitCalls, id \in 1..MaxSessions :
          submit_attempt(call[1], call[2], call[3], id)

Spec == Init /\ [][Next]_vars

(***************************************************************************)
(* The same handlers as concurrent requests.  Each worker serves one       *)
(* request in its own database transaction; a query reads the committed    *)
(* tables, and rows added or changed become visible at db.session.commit.  *)
(* No handler takes a lock and no isolation level is configured.           *)
(***************************************************************************)
InFlight(op) == Cardinality({w \in Workers : req[w].op = op})

\* lines 225-256: the request is validated and the active session is read
SubmitCheckSession(w, student_id, question_id, chosen_answer, session_id) ==
    /\ req[w].pc = "idle"
    /\ Len(attempts) + InFlight("submit_attempt") < MaxAttempts
    /\ IF Normalize(chosen_answer) = ""
       THEN resp' = Rejected("submit_attempt", "required") /\ UNCHANGED req
       ELSE IF question_id \notin DOMAIN questions
       THEN resp' = Rejected("submit_attempt", "question_not_found") /\ UNCHANGED req
       ELSE IF session_id \notin ActiveSessions(sessions, student_id)
       THEN resp' = Rejected("submit_attempt", "session_not_found") /\ UNCHANGED req
       ELSE /\ req' = [req EXCEPT ![w] =
                         Request("submit_attempt", "session_checked", student_id,
                                 question_id, session_id,
                                 Normalize(chosen_answer)
                                   = Normalize(questions[question_id].correct_answer),
                                 0, NoPending)]
            /\ UNCHANGED resp
    /\ UNCHANGED <<questions, gamification, lecture_topics, recommendations, sessions, attempts, summaries, now>>

\* lines 258-269: the count of the existing rows of the triple
SubmitCount(w) ==
    LET r == req[w]
        existing_attempts ==
            ExistingAttempts(attempts, r.student_id, r.question_id, r.session_id)
    IN  /\ r.op = "submit_attempt" /\ r.pc = "session_checked"
        /\ IF existing_attempts >= 2
           THEN /\ resp' = Rejected("submit_attempt", "max_attempts")
                /\ req' = [req EXCEPT ![w] = NoReq]
           ELSE /\ req' = [req EXCEPT ![w] = [r EXCEPT !.pc = "counted",
                                                !.existing_attempts = existing_attempts]]
                /\ UNCHANGED resp
        /\ UNCHANGED <<questions, gamification, lecture_topics, recommendations, sessions, attempts, summaries, now>>

\* lines 271-291: the Attempt is added to the transaction and the summary
\* row is read and changed in it
SubmitInsert(w) ==
    LET r == req[w]
        changed == _update_performance_summary(summaries, r.student_id,
                       questions[r.question_id].subject, r.is_correct)
        index == IF Len(changed) > Len(summaries) THEN Len(changed)
                 ELSE CHOOSE i \in DOMAIN summaries : changed[i] # summaries[i]
    IN  /\ r.op = "submit_attempt" /\ r.pc = "counted"
        /\ req' = [req EXCEPT ![w] =
                     [r EXCEPT !.pc = "inserted",
                               !.pending = [insert |-> Len(changed) > Len(summaries),
                                            index |-> index, row |-> changed[index],
                                            gamification |->
                                               _update_gamification(gamification,
                                                   attempts, r.student_id, r.is_correct,
                                                   r.existing_attempts = 0, now)]]]
        /\ UNCHANGED <<questions, gamification, lecture_topics, recommendations, sessions, attempts, summaries, now, resp>>

\* the summaries table after the flush of the transaction's summary row: an
\* INSERT of the row it created, or an UPDATE of the row it loaded with the
\* values it computed from what it read
WriteSummary(sums, pending) ==
    IF pending.insert THEN Append(sums, pending.row)
    ELSE [sums EXCEPT ![pending.index] = pending.row]

\* line 293: db.session.commit()
SubmitCommit(w) ==
    LET r == req[w]
        written == WriteSummary(summaries, r.pending)
        rewarded == WriteGamification(gamification, r.student_id, r.pending.gamification)
    IN  /\ r.op = "submit_attempt" /\ r.pc = "inserted"
        /\ req' = [req EXCEPT ![w] = NoReq]
        /\ IF ~SummariesUnique(written) \/ ~GamificationUnique(rewarded)
           THEN /\ resp' = Rejected("submit_attempt", "failed")
                /\ UNCHANGED <<attempts, summaries, gamification>>
           ELSE /\ attempts' = Append(attempts,
                                  AttemptRow(r.student_id, r.question_id, r.session_id,
                                             r.is_correct, r.existing_attempts + 1, now))
                /\ summaries' = written
                /\ gamification' = rewarded
                /\ resp' = response_data(questions[r.question_id], r.is_correct,
                                          r.existing_attempts + 1)
        /\ UNCHANGED <<questions, lecture_topics, recommendations, sessions, now>>

\* lines 36-55: the mode is validated and the active session is read
StartReadActive(w, student_id, data) ==
    /\ req[w].pc = "idle"
    /\ Len(sessions) + InFlight("start_practice_session") < MaxSessions
    /\ IF data.mode \notin valid_modes
       THEN resp' = Rejected("start_practice_session", "invalid_mode") /\ UNCHANGED req
       ELSE /\ \E active_session \in
                  (IF ActiveSessions(sessions, student_id) = {} THEN {None}
                   ELSE ActiveSessions(sessions, student_id)) :
                  req' = [req EXCEPT ![w] =
                            [Request("start_practice_session", "active_read", student_id,
                                     0, active_session, FALSE, 0, NoPending)
                               EXCEPT !.data = data]]
            /\ UNCHANGED resp
    /\ UNCHANGED <<questions, gamification, lecture_topics, recommendations, sessions, attempts, summaries, now>>

\* lines 57-59: the session that was read is ended and committed
StartEndActive(w) ==
    LET r == req[w]
    IN  /\ r.op = "start_practice_session" /\ r.pc = "active_read"
        /\ sessions' = IF r.session_id = None THEN sessions
                       ELSE [sessions EXCEPT ![r.session_id] =
                                end_session(sessions[r.session_id], attempts, r.session_id)]
        /\ req' = [req EXCEPT ![w] = [r EXCEPT !.pc = "prior_ended"]]
        /\ UNCHANGED <<questions, gamification, lecture_topics, recommendations, attempts, summaries, now, resp>>

\* lines 61-79: the new session is inserted and committed
StartInsert(w) ==
    LET r == req[w]
    IN  /\ r.op = "start_practice_session" /\ r.pc = "prior_ended"
        /\ sessions' = Append(sessions,
                          SessionRow(r.student_id, r.data.mode, r.data.subjects,
                                     r.data.chapters, r.data.topics))
        /\ resp' = [NoResp EXCEPT !.op = "start_practice_session", !.status = "ok",
                                  !.session_id = Len(sessions) + 1,
                                  !.mode = r.data.mode]
        /\ req' = [req EXCEPT ![w] = NoReq]
        /\ UNCHANGED <<questions, gamification, lecture_topics, recommendations, attempts, summaries, now>>

\* lines 97-112: the session is read and checked
EndReadSession(w, student_id, session_id) ==
    /\ req[w].pc = "idle"
    /\ IF session_id \notin DOMAIN sessions
          \/ sessions[session_id].student_id # student_id
       THEN resp' = Rejected("end_practice_session", "session_not_found") /\ UNCHANGED req
       ELSE IF ~sessions[session_id].is_active
       THEN resp' = Rejected("end_practice_session", "already_ended") /\ UNCHANGED req
       ELSE /\ req' = [req EXCEPT ![w] =
                         Request("end_practice_session", "session_read", student_id, 0,
                                 session_id, FALSE, 0, NoPending)]
            /\ UNCHANGED resp
    /\ UNCHANGED <<questions, gamification, lecture_topics, recommendations, sessions, attempts, summaries, now>>

\* lines 114-116: end_session and commit
EndCommit(w) ==
    LET r == req[w]
    IN  /\ r.op = "end_practice_session" /\ r.pc = "session_read"
        /\ sessions' = [sessions EXCEPT ![r.session_id] =
                           end_session(sessions[r.session_id], attempts, r.session_id)]
        /\ resp' = [NoResp EXCEPT !.op = "end_practice_session", !.status = "ok",
                       !.total_questions = sessions'[r.session_id].total_questions,
                       !.correct_answers = sessions'[r.session_id].correct_answers]
        /\ req' = [req EXCEPT ![w] = NoReq]
        /\ UNCHANGED <<questions, gamification, lecture_topics, recommendations, attempts, summaries, now>>

ConcStudents == {1}
ConcQuestions == {2}
ConcAnswers == {" a "}

ConcNext ==
    \E w \in Workers :
        \/ \E s \in ConcStudents, q \in ConcQuestions, a \in ConcAnswers,
              id \in 1..MaxSessions : SubmitCheckSession(w, s, q, a, id)
        \/ SubmitCount(w)
        \/ SubmitInsert(w)
        \/ SubmitCommit(w)
        \/ \E s \in ConcStudents, data \in StartRequests : StartReadActive(w, s, data)
        \/ StartEndActive(w)
        \/ StartInsert(w)
        \/ \E s \in ConcStudents, id \in 1..MaxSessions : EndReadSession(w, s, id)
        \/ EndCommit(w)

ConcSpec == Init /\ [][ConcNext]_vars

(***************************************************************************)
(* Engine specifications: an attempt history drawn from bounded sets, and  *)
(* one call of the engine on it.                                           *)
(***************************************************************************)
\* runs of the student under test, and runs of another student in between
Runs(lens) ==
    [student_id : {1}, question_id : 1..4, is_correct : BOOLEAN, len : lens]
    \cup [student_id : {2}, question_id : {3}, is_correct : {TRUE}, len : {30}]

RECURSIVE Expand(_, _, _)
\* the attempts of a sequence of runs; the first `old` runs were created
\* more than 30 days ago
Expand(runs, old, today) ==
    IF runs = <<>> THEN <<>>
    ELSE LET r == Head(runs)
             day == IF old > 0 THEN today - 31 ELSE today
         IN  [i \in 1..r.len |->
                 AttemptRow(r.student_id, r.question_id, None, r.is_correct, 1, day)]
             \o Expand(Tail(runs), old - 1, today)

HistoryInit(lens, mixed_age) ==
    /\ questions = Bank
    /\ sessions = <<>>
    /\ summaries = <<>>
    /\ gamification = NoGamification
    /\ lecture_topics = {}
    /\ recommendations = <<>>
    /\ now = 31
    /\ resp = NoResp
    /\ req = [w \in Workers |-> NoReq]
    /\ \E n \in 0..MaxRuns : \E runs \in [1..n -> Runs(lens)] :
       \E old \in (IF mixed_age THEN 0..n ELSE {0}) :
          attempts = Expand(runs, old, now)

EngineNextQuestion ==
    /\ resp.op = "none"
    /\ \E m \in valid_modes, sc \in Scopes :
         \E pool \in mode_pools(1, m, sc.subjects, sc.chapters, sc.topics) :
         \E q \in pick_question(1, pool, sc.subjects, sc.topics) :
            resp' = [NoResp EXCEPT !.op = "get_next_question", !.student_id = 1,
                        !.mode = m, !.subjects = sc.subjects,
                        !.chapters = sc.chapters, !.topics = sc.topics,
                        !.pool = pool, !.question_id = q]
    /\ UNCHANGED <<questions, gamification, lecture_topics, recommendations, sessions, attempts, summaries, now, req>>

EngineSpec == HistoryInit(RunLens, TRUE) /\ [][EngineNextQuestion]_vars

\* the same call on histories whose attempts were all created today
SelectionSpec == HistoryInit(RunLens, FALSE) /\ [][EngineNextQuestion]_vars

EngineTargetDifficulty ==
    /\ resp.op = "none"
    /\ \E sc \in Scopes :
            resp' = [NoResp EXCEPT !.op = "get_target_difficulty", !.student_id = 1,
                        !.subjects = sc.subjects, !.topics = sc.topics,
                        !.value = _get_target_difficulty(1, sc.subjects, sc.topics),
                        !.accuracy =
                            LET window == recent_attempts(1, sc.subjects, sc.topics)
                            IN  IF window = <<>> THEN <<0, 1>> ELSE accuracy(window)]
    /\ UNCHANGED <<questions, gamification, lecture_topics, recommendations, sessions, attempts, summaries, now, req>>

TargetSpec == HistoryInit(WindowRunLens, FALSE) /\ [][EngineTargetDifficulty]_vars

TopicRunLens == {1, 2, 3}            \* run lengths around the 3-attempt floor
TopicScopes == {{}, {"Physics"}, {"Chemistry"}}

EngineWeakestTopic ==
    /\ resp.op = "none"
    /\ \E subjects \in TopicScopes :
         \E weak_topic \in _get_weakest_topic(1, subjects) :
            resp' = [NoResp EXCEPT !.op = "get_weakest_topic", !.student_id = 1,
                        !.subjects = subjects, !.topic = weak_topic]
    /\ UNCHANGED <<questions, gamification, lecture_topics, recommendations, sessions, attempts, summaries, now, req>>

TopicSpec == HistoryInit(TopicRunLens, TRUE) /\ [][EngineWeakestTopic]_vars

RevisionRunLens == {1, 2}            \* a question missed once or twice
Limits == {1, 10}                    \* the limit of the request, default 10

EngineRevisionRecommendations ==
    /\ resp.op = "none"
    /\ \E limit \in Limits :
            resp' = [NoResp EXCEPT !.op = "get_revision_recommendations",
                        !.student_id = 1, !.limit = limit,
                        !.list = get_revision_recommendations(1, limit)]
    /\ UNCHANGED <<questions, gamification, lecture_topics, recommendations, sessions, attempts, summaries, now, req>>

RevisionSpec == HistoryInit(RevisionRunLens, TRUE) /\ [][EngineRevisionRecommendations]_vars

(***************************************************************************)
(* Lecture follow-up: controllers/lectures.py attach_topics_to_lecture and *)
(* RecommendationService.generate_lecture_recommendations                  *)
(***************************************************************************)
MaxRecommendations == 11   \* rows in the store beyond which no call is made

\* the lectures and syllabus tables (authoring them is outside the engine)
Lectures == <<[subject |-> "Physics"], [subject |-> "Chemistry"]>>

Syllabus ==
    <<[subject |-> "Physics", chapter |-> "Mechanics", topic |-> "Kinematics"],
      [subject |-> "Physics", chapter |-> "Optics", topic |-> "Lenses"],
      [subject |-> "Chemistry", chapter |-> "Kinetics", topic |-> "Kinematics"]>>

\* a bank with six medium questions on one topic, five on another, a hard
\* and an inactive question, and a topic name shared with another subject
LectureBank ==
    [i \in 1..14 |->
        IF i <= 6 THEN Q("Physics", "Mechanics", "Kinematics", 2 + (i % 2), TRUE)
        ELSE IF i = 7 THEN Q("Physics", "Mechanics", "Kinematics", 4, TRUE)
        ELSE IF i = 8 THEN Q("Physics", "Mechanics", "Kinematics", 2, FALSE)
        ELSE IF i <= 13 THEN Q("Physics", "Optics", "Lenses", 3, TRUE)
        ELSE Q("Chemistry", "Kinetics", "Kinematics", 2, TRUE)]

RECURSIVE SortedSeq(_)
\* the elements of a set of numbers in ascending order (the order of ids)
SortedSeq(S) ==
    IF S = {} THEN <<>>
    ELSE LET m == CHOOSE x \in S : \A y \in S : x <= y
         IN  <<m>> \o SortedSeq(S \ {m})

\* limit(n).all() on a query without order_by: any n of the rows
Limit(S, n) ==
    IF Cardinality(S) <= n THEN {S} ELSE {T \in SUBSET S : Cardinality(T) = n}

RecommendationRow(lecture_id, subject, topic, question_id, syllabus_id, priority) ==
    [lecture_id |-> lecture_id, subject |-> subject, topic |-> topic,
     question_id |-> question_id, syllabus_id |-> syllabus_id,
     priority |-> priority]

\* Question.difficulty.between(2, 4) taken for the medium band
medium_wide(difficulty) == difficulty \in 2..4

\* Question.difficulty.between(2, 3)
medium(difficulty) == difficulty \in 2..3

\* lines 47-54: the questions of one syllabus item
topic_questions(syllabus_item) ==
    {q \in DOMAIN questions :
        /\ questions[q].subject = syllabus_item.subject
        /\ questions[q].chapter = syllabus_item.chapter
        /\ questions[q].topic = syllabus_item.topic
        /\ questions[q].is_active
        /\ medium(questions[q].difficulty)}

RECURSIVE topic_recommendations(_, _)
\* lines 43-68: the row sequences the loop over the lecture's topics can add
topic_recommendations(lecture_id, syllabus_ids) ==
    IF syllabus_ids = <<>> THEN {<<>>}
    ELSE LET id == Head(syllabus_ids)
             syllabus_item == Syllabus[id]
         IN  {[k \in 1..Cardinality(chosen) |->
                  RecommendationRow(lecture_id, syllabus_item.subject,
                      syllabus_item.topic, SortedSeq(chosen)[k], id, 1)] \o rest :
                chosen \in Limit(topic_questions(syllabus_item), 5),
                rest \in topic_recommendations(lecture_id, Tail(syllabus_ids))}

\* _generate_subject_recommendations: the rows added to the session
_generate_subject_recommendations(lecture_id) ==
    LET subject == Lectures[lecture_id].subject
        found == {q \in DOMAIN questions :
                     /\ questions[q].subject = subject
                     /\ questions[q].is_active
                     /\ medium(questions[q].difficulty)}
    IN  {[k \in 1..Cardinality(chosen) |->
             RecommendationRow(lecture_id, subject, questions[SortedSeq(chosen)[k]].topic,
                               SortedSeq(chosen)[k], None, 2)] :
           chosen \in Limit(found, 10)}

\* each row committed as it is added, so that a later failure leaves the
\* rows added before it in the store
generate_outcomes_row_commit(lecture_id, linked) ==
    {[rows |-> <<>>, committed |-> FALSE, failed |-> TRUE, value |-> 0]}
    \cup
    IF lecture_id \notin DOMAIN Lectures
    THEN {[rows |-> <<>>, committed |-> FALSE, failed |-> FALSE, value |-> 0]}
    ELSE IF linked = {}
    THEN {[rows |-> rows, committed |-> FALSE, failed |-> FALSE,
            value |-> Len(rows)] :
             rows \in _generate_subject_recommendations(lecture_id)}
    ELSE LET runs == topic_recommendations(lecture_id, SortedSeq(linked))
         IN  {[rows |-> rows, committed |-> TRUE, failed |-> FALSE,
                value |-> Len(rows)] : rows \in runs}
             \cup UNION {{[rows |-> SubSeq(rows, 1, k), committed |-> TRUE,
                              failed |-> TRUE, value |-> 0] :
                               k \in 1..Len(rows)} : rows \in runs}

\* the outcomes of generate_lecture_recommendations for a lecture whose
\* linked syllabus ids are given: the rows it adds to the session, whether
\* it commits them, whether a storage operation raised, and the number it
\* returns.  A failure can come before any row is added, or in the topic
\* loop (whose queries flush the pending rows) and at the commit after any
\* number of rows; the except branch then rolls the session back and returns
\* 0.  The subject branch returns the count at line 39 without reaching the
\* commit of line 70.
generate_outcomes(lecture_id, linked) ==
    {[rows |-> <<>>, committed |-> FALSE, failed |-> TRUE, value |-> 0]}
    \cup
    IF lecture_id \notin DOMAIN Lectures
    THEN {[rows |-> <<>>, committed |-> FALSE, failed |-> FALSE, value |-> 0]}
    ELSE IF linked = {}
    THEN {[rows |-> rows, committed |-> FALSE, failed |-> FALSE,
            value |-> Len(rows)] :
             rows \in _generate_subject_recommendations(lecture_id)}
    ELSE LET runs == topic_recommendations(lecture_id, SortedSeq(linked))
         IN  {[rows |-> rows, committed |-> TRUE, failed |-> FALSE,
                value |-> Len(rows)] : rows \in runs}
             \cup UNION {{[rows |-> SubSeq(rows, 1, k), committed |-> FALSE,
                              failed |-> TRUE, value |-> 0] :
                               k \in 1..Len(rows)} : rows \in runs}

LinkedTopics(links, lecture_id) == {l[2] : l \in {x \in links : x[1] = lecture_id}}

\* a direct call of the service; rows left uncommitted are discarded with
\* the session at the end of the request.  storage_ok tells whether the
\* store serves every operation of the call.
generate_lecture_recommendations(lecture_id, storage_ok) ==
    /\ Len(recommendations) < MaxRecommendations
    /\ \E out \in generate_outcomes(lecture_id, LinkedTopics(lecture_topics, lecture_id)) :
          /\ out.failed = ~storage_ok
          /\ recommendations' = IF out.committed THEN recommendations \o out.rows
                                 ELSE recommendations
          /\ resp' = [NoResp EXCEPT !.op = "generate_lecture_recommendations",
                         !.status = "ok", !.lecture_id = lecture_id,
                         !.value = out.value, !.list = out.rows,
                         !.failed = out.failed]
    /\ UNCHANGED <<questions, sessions, attempts, summaries, gamification,
                   lecture_topics, now, req>>

\* POST /lectures/<id>/topics; storage_ok tells whether the store serves
\* every operation of the nested generation
attach_topics_to_lecture(lecture_id, syllabus_ids, storage_ok) ==
    /\ Len(recommendations) < MaxRecommendations
    /\ IF lecture_id \notin DOMAIN Lectures
       THEN /\ resp' = [Rejected("attach_topics_to_lecture", "lecture_not_found")
                           EXCEPT !.lecture_id = lecture_id]
            /\ UNCHANGED <<lecture_topics, recommendations>>
       ELSE IF syllabus_ids = {}
       THEN /\ resp' = [Rejected("attach_topics_to_lecture", "required")
                           EXCEPT !.lecture_id = lecture_id]
            /\ UNCHANGED <<lecture_topics, recommendations>>
       ELSE IF ~(syllabus_ids \subseteq DOMAIN Syllabus)
       THEN /\ resp' = [Rejected("attach_topics_to_lecture", "invalid_topics")
                           EXCEPT !.lecture_id = lecture_id]
            /\ UNCHANGED <<lecture_topics, recommendations>>
       ELSE /\ lecture_topics' =
                  {l \in lecture_topics : l[1] # lecture_id}
                  \cup {<<lecture_id, id>> : id \in syllabus_ids}
            /\ \E out \in generate_outcomes(lecture_id, syllabus_ids) :
                  /\ out.failed = ~storage_ok
                  /\ recommendations' = IF out.committed
                                         THEN recommendations \o out.rows
                                         ELSE recommendations
                  /\ resp' = [NoResp EXCEPT !.op = "attach_topics_to_lecture",
                                 !.status = "ok", !.lecture_id = lecture_id,
                                 !.value = Cardinality(syllabus_ids),
                                 !.failed = out.failed]
    /\ UNCHANGED <<questions, sessions, attempts, summaries, gamification, now, req>>

LectureInit ==
    /\ questions = LectureBank
    /\ sessions = <<>>
    /\ attempts = <<>>
    /\ summaries = <<>>
    /\ gamification = NoGamification
    /\ lecture_topics = {}
    /\ recommendations = <<>>
    /\ now = 31
    /\ resp = NoResp
    /\ req = [w \in Workers |-> NoReq]

\* the attach requests <<lecture_id, syllabus_ids>> the model makes
AttachCalls ==
    {<<1, {1, 2}>>, <<1, {2}>>, <<1, {3}>>, <<2, {3}>>,
     <<1, {}>>, <<1, {2, 4}>>, <<3, {1}>>}

\* the calls made while the store is healthy
LectureNext ==
    \/ \E call \in AttachCalls : attach_topics_to_lecture(call[1], call[2], TRUE)
    \/ \E lecture_id \in 1..3 : generate_lecture_recommendations(lecture_id, TRUE)

LectureSpec == LectureInit /\ [][LectureNext]_vars

\* the attach requests made while the store may fail
FailingAttachCalls == {<<1, {2}>>, <<1, {3}>>, <<2, {3}>>}

\* the same calls against a store that can fail during any call
FailingNext ==
    \/ \E call \in FailingAttachCalls, storage_ok \in BOOLEAN :
          attach_topics_to_lecture(call[1], call[2], storage_ok)
    \/ \E lecture_id \in 1..2, storage_ok \in BOOLEAN :
          generate_lecture_recommendations(lecture_id, storage_ok)

FailingSpec == LectureInit /\ [][FailingNext]_vars

(***************************************************************************)
(* Properties of the engine                                                *)
(***************************************************************************)
RECURSIVE LatestBefore(_, _, _, _, _)
\* positions in the attempts table, at or before position i, of the n most
\* recent attempts of a student on questions of the given subjects and
\* topics (an empty set of subjects or topics does not restrict)
LatestBefore(i, student_id, subjects, topics, n) ==
    IF i = 0 \/ n = 0 THEN {}
    ELSE IF /\ attempts[i].student_id = student_id
            /\ subjects # {} => questions[attempts[i].question_id].subject \in subjects
            /\ topics # {} => questions[attempts[i].question_id].topic \in topics
         THEN {i} \cup LatestBefore(i - 1, student_id, subjects, topics, n - 1)
         ELSE LatestBefore(i - 1, student_id, subjects, topics, n)

RecentPositions(student_id, subjects, topics, n) ==
    LatestBefore(Len(attempts), student_id, subjects, topics, n)

Last30Ids(student_id) ==
    {attempts[i].question_id : i \in RecentPositions(student_id, {}, {}, 30)}

\* C1: get_next_question never returns a question whose id is among the
\* question ids of the student's 30 most recent attempts, and returns None
\* when every candidate in scope is among them.
C1_NeverRecentlySeen ==
    resp.op = "get_next_question" =>
        LET recent == Last30Ids(resp.student_id)
        IN  /\ resp.question_id \notin recent
            /\ resp.pool \subseteq recent => resp.question_id = None

\* a question attempted before the window is served again while other
\* questions of the pool are held back as recently seen
C1_Witness ==
    /\ resp.op = "get_next_question"
    /\ resp.question_id # None
    /\ \E i \in DOMAIN attempts :
          /\ attempts[i].student_id = resp.student_id
          /\ attempts[i].question_id = resp.question_id
    /\ resp.pool \cap Last30Ids(resp.student_id) # {}

RECURSIVE TotalDifficulty(_)
\* the sum of the difficulties of the questions attempted at the positions W
TotalDifficulty(W) ==
    IF W = {} THEN 0
    ELSE LET i == CHOOSE j \in W : TRUE
         IN  questions[attempts[i].question_id].difficulty + TotalDifficulty(W \ {i})

\* the reference rule of the Difficulty Estimator over the 20 most recent
\* in-scope attempts
ReferenceDifficulty(student_id, subjects, topics) ==
    LET W == RecentPositions(student_id, subjects, topics, 20)
        n == Cardinality(W)
        correct == Cardinality({i \in W : attempts[i].is_correct})
        total_difficulty == TotalDifficulty(W)
        floor_avg == CHOOSE f \in 0..5 :
                        f * n <= total_difficulty /\ total_difficulty < (f + 1) * n
    IN  IF n = 0 THEN 2
        ELSE IF 10 * correct >= 8 * n
             THEN (IF floor_avg + 1 <= 5 THEN floor_avg + 1 ELSE 5)
        ELSE IF 10 * correct <= 4 * n
             THEN (IF floor_avg - 1 >= 1 THEN floor_avg - 1 ELSE 1)
        ELSE floor_avg

TwentyCorrectAtThree(student_id, subjects, topics) ==
    LET W == RecentPositions(student_id, subjects, topics, 20)
    IN  /\ Cardinality(W) = 20
        /\ \A i \in W : /\ attempts[i].is_correct
                        /\ questions[attempts[i].question_id].difficulty = 3

\* C10: the Difficulty Estimator equals the reference rule for every attempt
\* history, and 20 consecutive correct attempts at difficulty 3 give 4.
C10_EstimatorIsReference ==
    resp.op = "get_target_difficulty" =>
        /\ resp.value = ReferenceDifficulty(resp.student_id, resp.subjects, resp.topics)
        /\ TwentyCorrectAtThree(resp.student_id, resp.subjects, resp.topics)
              => resp.value = 4

C10_Witness ==
    /\ resp.op = "get_target_difficulty"
    /\ TwentyCorrectAtThree(resp.student_id, resp.subjects, resp.topics)
    /\ Len(attempts) > 20
    /\ resp.value = 4

\* C11: for every attempt history over questions of difficulty 1..5 the
\* Difficulty Estimator returns an integer in 1..5, and the preferred
\* difficulty set built from it is a non-empty subset of 1..5.
C11_EstimateInRange ==
    resp.op = "get_target_difficulty" =>
        /\ resp.value \in 1..5
        /\ difficulty_range(resp.value) # {}
        /\ difficulty_range(resp.value) \subseteq 1..5
        /\ difficulty_range(resp.value) =
              {d \in 1..5 : d - resp.value \in {-1, 0, 1}}

\* the estimate sits at the top of the scale after correct answers to the
\* hardest question, where the range has no upper neighbour
C11_Witness ==
    /\ resp.op = "get_target_difficulty"
    /\ resp.value = 5
    /\ \E i \in RecentPositions(resp.student_id, resp.subjects, resp.topics, 20) :
          questions[attempts[i].question_id].difficulty = 5

\* the window of the call recorded in resp: its size, its number of correct
\* attempts and the sum of its difficulties
WindowSize == Cardinality(RecentPositions(resp.student_id, resp.subjects, resp.topics, 20))

WindowCorrect ==
    Cardinality({i \in RecentPositions(resp.student_id, resp.subjects, resp.topics, 20) :
                    attempts[i].is_correct})

WindowDifficulty ==
    TotalDifficulty(RecentPositions(resp.student_id, resp.subjects, resp.topics, 20))

\* C12: whenever accuracy over the sampled window is at least 0.8, the
\* target is at least avg_difficulty rounded to the nearest integer (halves
\* rounded up, the larger choice) and at most avg_difficulty + 1, and never
\* above 5.  With n attempts and difficulty sum d: round(d/n) is
\* (2d + n) div 2n, and target <= d/n + 1 is target * n <= d + n.
C12_HighAccuracyBounds ==
    (/\ resp.op = "get_target_difficulty"
     /\ WindowSize > 0
     /\ 10 * WindowCorrect >= 8 * WindowSize) =>
        /\ resp.value >= (2 * WindowDifficulty + WindowSize) \div (2 * WindowSize)
        /\ resp.value * WindowSize <= WindowDifficulty + WindowSize
        /\ resp.value <= 5

\* a window of high accuracy whose average difficulty is not an integer and
\* rounds up
C12_Witness ==
    /\ resp.op = "get_target_difficulty"
    /\ WindowSize > 0
    /\ 10 * WindowCorrect >= 8 * WindowSize
    /\ 2 * (WindowDifficulty % WindowSize) >= WindowSize
    /\ resp.value = (2 * WindowDifficulty + WindowSize) \div (2 * WindowSize)

\* C13 as stated: the accuracy compared with the thresholds is the number
\* of correct attempts in the fetched window divided by 20, for every
\* fetched window of 1 to 20 attempts.
C13_AccuracyOverTwenty ==
    (resp.op = "get_target_difficulty" /\ WindowSize > 0) =>
        resp.accuracy[1] * 20 = WindowCorrect * resp.accuracy[2]

\* C13 as amended: the accuracy compared with the thresholds is the number
\* of correct attempts in the fetched window divided by the number of
\* attempts fetched (20 only when the window is full), and the target that
\* is returned is the one the thresholds select for that quotient.
C13_AccuracyOverFetched ==
    (resp.op = "get_target_difficulty" /\ WindowSize > 0) =>
        /\ resp.accuracy[1] * WindowSize = WindowCorrect * resp.accuracy[2]
        /\ resp.accuracy[2] > 0
        /\ (10 * WindowCorrect >= 8 * WindowSize) =>
              resp.value > WindowDifficulty \div WindowSize \/ resp.value = 5
        /\ (10 * WindowCorrect <= 4 * WindowSize) =>
              resp.value < WindowDifficulty \div WindowSize \/ resp.value = 1

\* a short window, all correct: accuracy 1 over the fetched attempts, where
\* a division by 20 would fall under the lower threshold
C13_Witness ==
    /\ resp.op = "get_target_difficulty"
    /\ WindowSize \in 1..8
    /\ WindowCorrect = WindowSize
    /\ resp.value = (WindowDifficulty \div WindowSize) + 1

\* the student's attempts on a topic within a subject scope: positions of
\* those created in the last 30 days, and of all of them
TopicRecent(student_id, subjects, t) ==
    {i \in DOMAIN attempts :
        /\ attempts[i].student_id = student_id
        /\ attempts[i].created_at >= now - 30
        /\ subjects # {} => questions[attempts[i].question_id].subject \in subjects
        /\ questions[attempts[i].question_id].topic = t}

TopicAll(student_id, subjects, t) ==
    {i \in DOMAIN attempts :
        /\ attempts[i].student_id = student_id
        /\ subjects # {} => questions[attempts[i].question_id].subject \in subjects
        /\ questions[attempts[i].question_id].topic = t}

ScopeTopics(subjects) ==
    {questions[q].topic : q \in {k \in DOMAIN questions :
                                   subjects # {} => questions[k].subject \in subjects}}

\* the in-scope topics with 3 or more attempts in the last 30 days
FloorTopics(student_id, subjects) ==
    {t \in ScopeTopics(subjects) :
        Cardinality(TopicRecent(student_id, subjects, t)) >= 3}

TopicCorrect(student_id, subjects, t) ==
    Cardinality({i \in TopicRecent(student_id, subjects, t) : attempts[i].is_correct})

\* C14: weakest-topic lookup never returns a topic with fewer than 3
\* attempts in the last 30 days when some in-scope topic has 3 or more; when
\* no topic meets the floor it returns an in-scope topic with the fewest total
\* attempts by the student, topics with zero attempts included.
C14_FloorOrLeastCovered ==
    resp.op = "get_weakest_topic" =>
        LET floor == FloorTopics(resp.student_id, resp.subjects)
        IN  /\ (floor # {} /\ resp.topic # NoTopic) => resp.topic \in floor
            /\ floor = {} =>
                  /\ resp.topic \in ScopeTopics(resp.subjects)
                  /\ \A u \in ScopeTopics(resp.subjects) :
                        Cardinality(TopicAll(resp.student_id, resp.subjects, resp.topic))
                           <= Cardinality(TopicAll(resp.student_id, resp.subjects, u))

\* no topic meets the floor, one topic has attempts and the other has none:
\* the topic without attempts is returned
C14_Witness ==
    /\ resp.op = "get_weakest_topic"
    /\ FloorTopics(resp.student_id, resp.subjects) = {}
    /\ resp.topic \in ScopeTopics(resp.subjects)
    /\ TopicAll(resp.student_id, resp.subjects, resp.topic) = {}
    /\ \E u \in ScopeTopics(resp.subjects) :
          TopicAll(resp.student_id, resp.subjects, u) # {}

\* a topic under the floor is passed over for a topic that meets it
C14_WitnessFloor ==
    /\ resp.op = "get_weakest_topic"
    /\ resp.topic \in FloorTopics(resp.student_id, resp.subjects)
    /\ \E u \in ScopeTopics(resp.subjects) :
          /\ TopicRecent(resp.student_id, resp.subjects, u) # {}
          /\ u \notin FloorTopics(resp.student_id, resp.subjects)

\* C15: whenever some in-scope topic has 3 or more attempts in the last 30
\* days, the lookup returns one of those topics, of minimal accuracy
\* correct/total among them, also when all of them are at accuracy 1.
C15_LowestAccuracyTopic ==
    (/\ resp.op = "get_weakest_topic"
     /\ FloorTopics(resp.student_id, resp.subjects) # {}) =>
        /\ resp.topic \in FloorTopics(resp.student_id, resp.subjects)
        /\ \A u \in FloorTopics(resp.student_id, resp.subjects) :
              TopicCorrect(resp.student_id, resp.subjects, resp.topic)
                 * Cardinality(TopicRecent(resp.student_id, resp.subjects, u))
              <= TopicCorrect(resp.student_id, resp.subjects, u)
                 * Cardinality(TopicRecent(resp.student_id, resp.subjects, resp.topic))

\* the question ids of the list in resp
Listed == {resp.list[k].question_id : k \in DOMAIN resp.list}

\* positions of the student's incorrect attempts on a question: those of the
\* last 30 days, and all of them
Missed(student_id, q) ==
    {i \in DOMAIN attempts : /\ attempts[i].student_id = student_id
                             /\ attempts[i].question_id = q
                             /\ ~attempts[i].is_correct
                             /\ now - attempts[i].created_at <= 30}

EverMissed(student_id, q) ==
    {i \in DOMAIN attempts : /\ attempts[i].student_id = student_id
                             /\ attempts[i].question_id = q
                             /\ ~attempts[i].is_correct}

\* the student answered q correctly after every incorrect attempt on it
CorrectSince(student_id, q) ==
    \E i \in DOMAIN attempts :
        /\ attempts[i].student_id = student_id
        /\ attempts[i].question_id = q
        /\ attempts[i].is_correct
        /\ \A j \in EverMissed(student_id, q) : j < i

\* the questions missed in the last 30 days more recently than q
MissedLater(student_id, q) ==
    {x \in DOMAIN questions :
        /\ Missed(student_id, x) # {}
        /\ \E i \in Missed(student_id, x) : \A j \in Missed(student_id, q) : j < i}

\* C16 as stated: the list never has a question answered correctly after
\* the most recent incorrect attempt on it; a question missed in the last 30
\* days is listed while no later correct attempt exists.
C16_RevisionList ==
    resp.op = "get_revision_recommendations" =>
        \A q \in DOMAIN questions :
            /\ q \in Listed => ~CorrectSince(resp.student_id, q)
            /\ (Missed(resp.student_id, q) # {} /\ ~CorrectSince(resp.student_id, q))
                  => q \in Listed

\* C16 as amended: the list never has a question answered correctly after
\* the most recent incorrect attempt on it; a question missed in the last 30
\* days is listed, with the number of those misses, while no later correct
\* attempt exists and it is among the `limit` questions missed most recently.
C16_RevisionListWithinLimit ==
    resp.op = "get_revision_recommendations" =>
        /\ Len(resp.list) <= resp.limit
        /\ \A k \in DOMAIN resp.list :
              /\ ~CorrectSince(resp.student_id, resp.list[k].question_id)
              /\ resp.list[k].attempts =
                    Cardinality(Missed(resp.student_id, resp.list[k].question_id))
              /\ resp.list[k].attempts > 0
        /\ \A q \in DOMAIN questions :
              (/\ Missed(resp.student_id, q) # {}
               /\ ~CorrectSince(resp.student_id, q)
               /\ Cardinality(MissedLater(resp.student_id, q)) < resp.limit)
                 => q \in Listed

\* a question missed twice in the last 30 days and answered correctly
\* afterwards is left out of the list
C16_Witness ==
    /\ resp.op = "get_revision_recommendations"
    /\ \E q \in DOMAIN questions :
          /\ Cardinality(Missed(resp.student_id, q)) = 2
          /\ CorrectSince(resp.student_id, q)
          /\ q \notin Listed

\* a question missed twice and not attempted since is listed with count 2
C16_WitnessListed ==
    /\ resp.op = "get_revision_recommendations"
    /\ \E k \in DOMAIN resp.list : resp.list[k].attempts = 2

(***************************************************************************)
(* Properties of the handlers                                              *)
(***************************************************************************)
TripleRows(student_id, question_id, session_id) ==
    {i \in DOMAIN attempts : /\ attempts[i].student_id = student_id
                             /\ attempts[i].question_id = question_id
                             /\ attempts[i].session_id = session_id}

OwnedRows(att, session_id) == {i \in DOMAIN att : att[i].session_id = session_id}

OwnedCorrect(att, session_id) ==
    {i \in OwnedRows(att, session_id) : att[i].is_correct}

Active(ses, student_id) ==
    {i \in DOMAIN ses : ses[i].student_id = student_id /\ ses[i].is_active}

C2_Cap ==
    \A s \in Students, q \in QIds, id \in DOMAIN sessions :
        Cardinality(TripleRows(s, q, id)) <= 2

\* no step adds a row to a triple that has 2 rows; an accepted submission
\* adds a row; and a submission to a triple of 2 rows that is well-formed and
\* names an active session of the student gets no other status than the
\* maximum-attempts error
C2_ThirdRejected ==
    /\ Len(attempts') > Len(attempts) =>
          LET new == attempts'[Len(attempts')]
          IN  Cardinality(TripleRows(new.student_id, new.question_id,
                                     new.session_id)) < 2
    /\ (resp'.op = "submit_attempt" /\ resp'.status = "ok") =>
          Len(attempts') = Len(attempts) + 1
    /\ (resp'.op = "submit_attempt" /\ resp'.status \notin {"ok", "max_attempts"}) =>
          \A k \in DOMAIN attempts :
              LET s == attempts[k].student_id
                  q == attempts[k].question_id
                  id == attempts[k].session_id
              IN  (id \in Active(sessions, s) /\ Cardinality(TripleRows(s, q, id)) >= 2) =>
                     \A a \in Answers :
                         Normalize(a) # "" => ~submit_attempt(s, q, a, id)

\* C2: with the requests served one at a time, at most 2 Attempt rows exist
\* for any (student, question, session) triple, and a submission made when 2
\* rows exist for its triple creates no row and is rejected, with the
\* maximum-attempts error when it reaches the attempt-limit check.
C2_AtMostTwoAttempts == []C2_Cap /\ [][C2_ThirdRejected]_vars

C2_Witness ==
    /\ resp.op = "submit_attempt"
    /\ resp.status = "max_attempts"
    /\ \E s \in Students, q \in QIds, id \in DOMAIN sessions :
          /\ Cardinality(TripleRows(s, q, id)) = 2
          /\ \A i \in TripleRows(s, q, id) : ~attempts[i].is_correct

\* C3: two concurrent submit_attempt requests of one student for the same
\* question and session never leave three Attempt rows for the triple.
C3_NoThirdRowUnderRace ==
    \A s \in Students, q \in QIds, id \in DOMAIN sessions :
        ~(\E i, j, k \in TripleRows(s, q, id) : i < j /\ j < k)

C4_OneActive == \A s \in Students : Cardinality(Active(sessions, s)) <= 1

C4_PriorEndedFirst ==
    (resp'.op = "start_practice_session" /\ resp'.status = "ok"
        /\ Len(sessions') = Len(sessions) + 1) =>
        LET new == sessions'[Len(sessions')]
        IN  /\ new.is_active
            /\ \A i \in Active(sessions, new.student_id) :
                  /\ ~sessions'[i].is_active
                  /\ sessions'[i].total_questions = Cardinality(OwnedRows(attempts, i))
                  /\ sessions'[i].correct_answers = Cardinality(OwnedCorrect(attempts, i))

\* C4: with the requests served one at a time, each student has at most one
\* active PracticeSession, and a start while one is active ends the prior
\* one (inactive, aggregates set) and creates the new active one.
C4_AtMostOneActive == []C4_OneActive /\ [][C4_PriorEndedFirst]_vars

C4_Witness ==
    /\ resp.op = "start_practice_session"
    /\ resp.status = "ok"
    /\ sessions[resp.session_id].is_active
    /\ \E i \in DOMAIN sessions :
          /\ i < resp.session_id
          /\ sessions[i].student_id = sessions[resp.session_id].student_id
          /\ ~sessions[i].is_active
          /\ sessions[i].total_questions > 0

\* C5: two concurrent start_practice_session requests of one student never
\* leave the student with two active PracticeSession rows.
C5_OneActiveUnderRace ==
    \A s \in Students :
        \A i, j \in DOMAIN sessions :
            (/\ sessions[i].student_id = s /\ sessions[j].student_id = s
             /\ sessions[i].is_active /\ sessions[j].is_active) => i = j

\* C6: a step that ends a PracticeSession, explicitly or by force, sets
\* total_questions to the number of the session's Attempt rows and
\* correct_answers to the number of the correct ones, and an accepted end
\* request leaves its session inactive.
C6_EndSetsAggregates ==
    [][/\ \A i \in DOMAIN sessions :
             (sessions[i].is_active /\ ~sessions'[i].is_active) =>
                 /\ sessions'[i].total_questions = Cardinality(OwnedRows(attempts', i))
                 /\ sessions'[i].correct_answers = Cardinality(OwnedCorrect(attempts', i))
       /\ (resp'.op = "end_practice_session" /\ resp'.status = "ok"
              /\ sessions' # sessions) =>
             \E i \in DOMAIN sessions :
                 /\ sessions[i].is_active /\ ~sessions'[i].is_active
                 /\ resp'.total_questions = Cardinality(OwnedRows(attempts', i))
                 /\ resp'.correct_answers = Cardinality(OwnedCorrect(attempts', i))]_vars

C6_Witness ==
    \E i \in DOMAIN sessions :
        /\ ~sessions[i].is_active
        /\ sessions[i].total_questions = 2
        /\ sessions[i].correct_answers = 1
        /\ Cardinality(OwnedRows(attempts, i)) = 2

\* C7: under every interleaving, every Attempt row is committed to a session
\* that is active at the commit, and an ended session's total_questions and
\* correct_answers equal the count and correct-count of its Attempt rows.
C7_AttemptsInActiveSession ==
    /\ [][\A k \in DOMAIN attempts' :
             k \notin DOMAIN attempts =>
                 /\ attempts'[k].session_id \in DOMAIN sessions
                 /\ sessions[attempts'[k].session_id].is_active]_vars
    /\ [](\A i \in DOMAIN sessions :
             ~sessions[i].is_active =>
                 /\ sessions[i].total_questions = Cardinality(OwnedRows(attempts, i))
                 /\ sessions[i].correct_answers = Cardinality(OwnedCorrect(attempts, i)))

SubjectRows(student_id, subject) ==
    {i \in DOMAIN attempts : /\ attempts[i].student_id = student_id
                             /\ questions[attempts[i].question_id].subject = subject}

\* C8: for every student and subject with at least one Attempt row, the
\* PerformanceSummary of the pair counts exactly the student's Attempt rows
\* on the subject and the correct ones among them, the first one included.
C8_SummaryMatchesLog ==
    \A s \in Students, subject \in Subjects :
        SubjectRows(s, subject) # {} =>
            \E i \in DOMAIN summaries :
                /\ summaries[i].student_id = s
                /\ summaries[i].subject = subject
                /\ summaries[i].total_attempts = Cardinality(SubjectRows(s, subject))
                /\ summaries[i].correct_attempts =
                      Cardinality({k \in SubjectRows(s, subject) : attempts[k].is_correct})

\* C9: a submission that passes the validation and the attempt limit is
\* accepted whatever the subject of its question, and leaves a summary for
\* the (student, subject) pair that counts no attempt of another subject.
C9_SummaryPerSubject ==
    [][\A s \in Students, q \in QIds, id \in DOMAIN sessions :
          (/\ resp'.op = "submit_attempt"
           /\ id \in Active(sessions, s)
           /\ Cardinality(TripleRows(s, q, id)) < 2
           /\ \E a \in {" a ", "B"} : submit_attempt(s, q, a, id)) =>
              /\ resp'.status = "ok"
              /\ \E i \in DOMAIN summaries' :
                    /\ summaries'[i].student_id = s
                    /\ summaries'[i].subject = questions[q].subject
                    /\ summaries'[i].total_attempts
                          <= Cardinality({k \in DOMAIN attempts' :
                                /\ attempts'[k].student_id = s
                                /\ questions[attempts'[k].question_id].subject
                                      = questions[q].subject})]_vars

\* C17: a submit_attempt call rejected for the attempt limit is rejected
\* before any write: the Attempt rows, the performance summaries, the
\* points, streaks and badges, and the sessions are all unchanged by it.
C17_LimitRejectionWritesNothing ==
    [][(resp'.op = "submit_attempt" /\ resp'.status = "max_attempts") =>
          /\ attempts' = attempts
          /\ summaries' = summaries
          /\ gamification' = gamification
          /\ sessions' = sessions]_vars

\* a third submission has been rejected for a student who holds a streak
\* row, a points row and a summary row from the two accepted ones
C17_Witness ==
    /\ resp.op = "submit_attempt" /\ resp.status = "max_attempts"
    /\ gamification.streaks # <<>>
    /\ gamification.points # <<>>
    /\ summaries # <<>>
    /\ \E s \in Students, q \in QIds, id \in DOMAIN sessions :
          Cardinality(TripleRows(s, q, id)) = 2


\* a mode outside the enumeration, or a mode that needs a scope list
\* supplied with an empty one
InvalidScope(data) ==
    \/ data.mode \notin {"adaptive", "topic", "chapter", "multi_chapter",
                         "multi_subject", "revision"}
    \/ data.mode = "topic" /\ data.topics = {}
    \/ data.mode = "chapter" /\ data.chapters = {}

\* C18: an unknown mode, and a session in mode 'topic' or 'chapter' supplied
\* with an empty topics or chapters list, are rejected as a caller input
\* error: no session is created and no active session is ended.
C18_InvalidScopeRejected ==
    [][\A call \in StartCalls :
          (InvalidScope(call[2]) /\ start_practice_session(call[1], call[2])) =>
              /\ resp'.status # "ok"
              /\ sessions' = sessions]_vars


(***************************************************************************)
(* Properties of the lecture follow-up                                     *)
(***************************************************************************)
\* the rows a step adds to the practice_recommendations table
NewRows ==
    IF Len(recommendations') > Len(recommendations)
    THEN SubSeq(recommendations', Len(recommendations) + 1, Len(recommendations'))
    ELSE <<>>

\* the active questions of difficulty 2 or 3 of one syllabus item, and of
\* one subject
Eligible(id) ==
    {q \in DOMAIN questions :
        /\ questions[q].is_active
        /\ questions[q].difficulty \in {2, 3}
        /\ questions[q].subject = Syllabus[id].subject
        /\ questions[q].chapter = Syllabus[id].chapter
        /\ questions[q].topic = Syllabus[id].topic}

EligibleInSubject(subject) ==
    {q \in DOMAIN questions :
        /\ questions[q].is_active
        /\ questions[q].difficulty \in {2, 3}
        /\ questions[q].subject = subject}

\* the step generated recommendations for a lecture with linked topics
GeneratedForTopics ==
    /\ \/ resp'.op = "attach_topics_to_lecture" /\ resp'.status = "ok"
       \/ resp'.op = "generate_lecture_recommendations"
    /\ resp'.lecture_id \in DOMAIN Lectures
    /\ LinkedTopics(lecture_topics', resp'.lecture_id) # {}
    /\ ~resp'.failed

\* C19: for a lecture with linked syllabus topics the generation persists,
\* for each linked topic, one priority-1 row per selected question, selecting
\* at most 5 active questions of exactly that subject, chapter and topic with
\* difficulty 2 or 3 (all of them when there are 5 or fewer), and no
\* priority-2 row; two linked topics with 5 or more such questions each give
\* exactly 10 rows.
C19_PerTopicRows ==
    [][GeneratedForTopics =>
          LET linked == LinkedTopics(lecture_topics', resp'.lecture_id)
              of_topic(id) == {k \in DOMAIN NewRows : NewRows[k].syllabus_id = id}
          IN  /\ \A k \in DOMAIN NewRows :
                    /\ NewRows[k].priority = 1
                    /\ NewRows[k].lecture_id = resp'.lecture_id
                    /\ NewRows[k].syllabus_id \in linked
                    /\ NewRows[k].question_id \in Eligible(NewRows[k].syllabus_id)
                    /\ NewRows[k].subject = Syllabus[NewRows[k].syllabus_id].subject
                    /\ NewRows[k].topic = Syllabus[NewRows[k].syllabus_id].topic
              /\ \A id \in linked :
                    /\ Cardinality(of_topic(id)) =
                          (IF Cardinality(Eligible(id)) < 5
                           THEN Cardinality(Eligible(id)) ELSE 5)
                    /\ Cardinality({NewRows[k].question_id : k \in of_topic(id)})
                          = Cardinality(of_topic(id))
              /\ (/\ Cardinality(linked) = 2
                  /\ \A id \in linked : Cardinality(Eligible(id)) >= 5)
                    => Len(NewRows) = 10]_vars

\* two topics are linked to lecture 1, one with six and one with five
\* eligible questions, and ten priority-1 rows are in the store
C19_Witness ==
    /\ resp.op = "attach_topics_to_lecture" /\ resp.status = "ok"
    /\ LinkedTopics(lecture_topics, 1) = {1, 2}
    /\ Len(recommendations) = 10
    /\ \A k \in DOMAIN recommendations :
          recommendations[k].priority = 1 /\ recommendations[k].lecture_id = 1

\* C20: for a lecture with no linked syllabus topic the generation selects
\* up to 10 active questions of the lecture's subject with difficulty 2 or 3
\* and persists one priority-2 row per question: when the call returns n,
\* n such rows are committed to the store.
C20_SubjectRowsCommitted ==
    [][(/\ resp'.op = "generate_lecture_recommendations"
        /\ resp'.lecture_id \in DOMAIN Lectures
        /\ LinkedTopics(lecture_topics, resp'.lecture_id) = {}
        /\ ~resp'.failed) =>
          LET subject == Lectures[resp'.lecture_id].subject
          IN  /\ resp'.value =
                    (IF Cardinality(EligibleInSubject(subject)) < 10
                     THEN Cardinality(EligibleInSubject(subject)) ELSE 10)
              /\ Len(NewRows) = resp'.value
              /\ \A k \in DOMAIN NewRows :
                    /\ NewRows[k].priority = 2
                    /\ NewRows[k].lecture_id = resp'.lecture_id
                    /\ NewRows[k].question_id \in EligibleInSubject(subject)]_vars

(***************************************************************************)
(* Properties of question selection by mode (EngineSpec, SelectionSpec).   *)
(***************************************************************************)
NoAttempts(student_id) ==
    \A i \in DOMAIN attempts : attempts[i].student_id # student_id

\* C21: for a student with no attempts, in adaptive mode with subject scope
\* ["Physics"], the target difficulty is 2 and any question returned has
\* subject Physics and a difficulty in 1..3, whatever the question bank.
C21_ColdStartInSubject ==
    (/\ resp.op = "get_next_question"
     /\ resp.mode = "adaptive"
     /\ resp.subjects = {"Physics"} /\ resp.chapters = {} /\ resp.topics = {}
     /\ NoAttempts(resp.student_id))
    => /\ _get_target_difficulty(resp.student_id, resp.subjects, resp.topics) = 2
       /\ resp.question_id # None =>
             /\ questions[resp.question_id].subject = "Physics"
             /\ questions[resp.question_id].difficulty \in 1..3

\* the part of C21 on the estimate alone
C21_ColdStartTarget ==
    (resp.op = "get_next_question" /\ NoAttempts(resp.student_id))
    => _get_target_difficulty(resp.student_id, resp.subjects, resp.topics) = 2

\* the part of C21 on the subject of the question returned
C21_ColdStartSubject ==
    (/\ resp.op = "get_next_question"
     /\ resp.mode = "adaptive"
     /\ resp.subjects = {"Physics"} /\ resp.chapters = {} /\ resp.topics = {}
     /\ NoAttempts(resp.student_id)
     /\ resp.question_id # None)
    => questions[resp.question_id].subject = "Physics"

\* the questions of the student's 30 most recent attempts, read off the
\* student's own attempts in the order of their creation
RecentIds(student_id) ==
    LET own == SelectSeq(attempts, LAMBDA a : a.student_id = student_id)
    IN  {own[i].question_id : i \in {j \in DOMAIN own : j > Len(own) - 30}}

\* the candidates of a pool that are not recently seen
FreshOf(pool, recent) == pool \ recent

\* the candidates within one level of the target difficulty
PreferredOf(fresh, target) ==
    {q \in fresh : /\ questions[q].difficulty >= target - 1
                   /\ questions[q].difficulty <= target + 1}

FreshPool == FreshOf(resp.pool, RecentIds(resp.student_id))

PreferredPool ==
    PreferredOf(FreshPool,
                _get_target_difficulty(resp.student_id, resp.subjects, resp.topics))

\* C22: get_next_question widens in strict order: it returns a question of
\* the preferred difficulty range when the scoped, not-recently-seen pool has
\* one, only otherwise a question of another difficulty from that pool, and
\* None exactly when that pool is empty.
C22_StrictWidening ==
    resp.op = "get_next_question" =>
        LET fresh == FreshOf(resp.pool, RecentIds(resp.student_id))
            preferred ==
                PreferredOf(fresh, _get_target_difficulty(resp.student_id,
                                       resp.subjects, resp.topics))
        IN  /\ resp.question_id = None <=> fresh = {}
            /\ fresh # {} =>
                  /\ preferred # {} => resp.question_id \in preferred
                  /\ preferred = {} => resp.question_id \in fresh

\* a question outside the preferred range is served because the fresh pool
\* has none inside it
C22_Witness ==
    /\ resp.op = "get_next_question"
    /\ PreferredPool = {}
    /\ FreshPool # {}
    /\ resp.question_id \in FreshPool

\* a preferred question is served while the fresh pool also holds questions
\* of other difficulties
C22_WitnessPreferred ==
    /\ resp.op = "get_next_question"
    /\ resp.question_id \in PreferredPool
    /\ FreshPool \ PreferredPool # {}

\* C23: every question get_next_question returns is active, and in the modes
\* topic, chapter, multi_chapter and multi_subject with a non-empty scope
\* list it lies inside the explicit scope of the mode.
C23_ActiveAndInScope ==
    (resp.op = "get_next_question" /\ resp.question_id # None) =>
        LET question == questions[resp.question_id]
        IN  /\ question.is_active
            /\ (resp.mode = "topic" /\ resp.topics # {})
                  => question.topic \in resp.topics
            /\ (resp.mode \in {"chapter", "multi_chapter"} /\ resp.chapters # {})
                  => question.chapter \in resp.chapters
            /\ (resp.mode = "multi_subject" /\ resp.subjects # {})
                  => question.subject \in resp.subjects

\* a chapter-scoped call returns a question while an inactive question of
\* the chapter and active questions of other chapters exist and are fresh
C23_Witness ==
    /\ resp.op = "get_next_question"
    /\ resp.mode = "chapter"
    /\ resp.chapters # {}
    /\ resp.question_id # None
    /\ \E q \in DOMAIN questions :
          /\ ~questions[q].is_active
          /\ questions[q].chapter \in resp.chapters
    /\ \E q \in DOMAIN questions \ RecentIds(resp.student_id) :
          /\ questions[q].is_active
          /\ questions[q].chapter \notin resp.chapters

\* the positions of the student's attempts on one question
AttemptsOn(student_id, q) ==
    {i \in DOMAIN attempts : /\ attempts[i].student_id = student_id
                             /\ attempts[i].question_id = q}

\* the questions inside the recorded scope which the student attempted at
\* least twice with fewer than 60% of the attempts correct
RevisionSet ==
    {q \in DOMAIN questions :
        LET on == AttemptsOn(resp.student_id, q)
            right == {i \in on : attempts[i].is_correct}
        IN  /\ resp.subjects # {} => questions[q].subject \in resp.subjects
            /\ resp.chapters # {} => questions[q].chapter \in resp.chapters
            /\ resp.topics # {} => questions[q].topic \in resp.topics
            /\ Cardinality(on) >= 2
            /\ 10 * Cardinality(right) < 6 * Cardinality(on)}

\* C24: in revision mode, when the student has an in-scope question
\* attempted at least twice with accuracy below 0.6, any question returned
\* is one of exactly those questions; only when there is none does the
\* engine fall back to the subject scope.
C24_RevisionCandidates ==
    (resp.op = "get_next_question" /\ resp.mode = "revision"
        /\ resp.question_id # None) =>
        /\ RevisionSet # {} => resp.question_id \in RevisionSet
        /\ (RevisionSet = {} /\ resp.subjects # {})
              => questions[resp.question_id].subject \in resp.subjects

\* a revision question is served while an active question outside the
\* revision set is fresh
C24_Witness ==
    /\ resp.op = "get_next_question"
    /\ resp.mode = "revision"
    /\ resp.question_id \in RevisionSet
    /\ \E q \in DOMAIN questions \ (RevisionSet \cup RecentIds(resp.student_id)) :
          questions[q].is_active

\* the fallback: no revision question exists and a question of the subject
\* scope is served
C24_WitnessFallback ==
    /\ resp.op = "get_next_question"
    /\ resp.mode = "revision"
    /\ RevisionSet = {}
    /\ resp.subjects # {}
    /\ resp.question_id # None

\* the active questions of the scoped subjects that are not recently seen
FreshInSubjects ==
    {q \in DOMAIN questions \ RecentIds(resp.student_id) :
        /\ questions[q].is_active
        /\ questions[q].subject \in resp.subjects}

\* C26: in adaptive mode with a non-empty subject scope, get_next_question
\* returns a question whenever some active question of a scoped subject is
\* not among the student's 30 most recently attempted questions: narrowing
\* to the weakest or least-covered topic never exhausts the pool while the
\* subject scope still has fresh questions.
C26_SubjectNeverExhausted ==
    (/\ resp.op = "get_next_question"
     /\ resp.mode = "adaptive"
     /\ resp.subjects # {}
     /\ FreshInSubjects # {})
    => resp.question_id # None

\* the active questions of one topic, of any subject
TopicPool(t) ==
    {q \in DOMAIN questions : questions[q].is_active /\ questions[q].topic = t}

\* C26 as the code has it: in adaptive mode with a non-empty subject scope
\* the candidates are the active questions of one topic, or of the scoped
\* subjects when no topic is chosen, and get_next_question returns None
\* exactly when every one of those candidates is recently seen, also while
\* other topics of the scope have fresh questions.
C26_NarrowedPoolDecides ==
    (/\ resp.op = "get_next_question"
     /\ resp.mode = "adaptive"
     /\ resp.subjects # {})
    => /\ \/ \E q \in DOMAIN questions :
                /\ questions[q].subject \in resp.subjects
                /\ resp.pool = TopicPool(questions[q].topic)
          \/ resp.pool = {q \in DOMAIN questions :
                            /\ questions[q].is_active
                            /\ questions[q].subject \in resp.subjects}
       /\ resp.question_id = None <=> resp.pool \subseteq RecentIds(resp.student_id)
       /\ resp.question_id # None => resp.question_id \in resp.pool

\* the chosen topic is exhausted and None is returned while the scoped
\* subject still has a fresh active question
C26_Witness ==
    /\ resp.op = "get_next_question"
    /\ resp.mode = "adaptive"
    /\ resp.subjects # {}
    /\ resp.pool # {}
    /\ resp.pool \subseteq RecentIds(resp.student_id)
    /\ resp.question_id = None
    /\ FreshInSubjects # {}

(***************************************************************************)
(* Properties of repeated and failing generation (LectureSpec).            *)
(***************************************************************************)
\* no two rows of the store recommend the same question for the same lecture
PairsUnique(rows) ==
    \A i, j \in DOMAIN rows :
        (/\ rows[i].lecture_id = rows[j].lecture_id
         /\ rows[i].question_id = rows[j].question_id) => i = j

\* C27: after any sequence of attach_topics_to_lecture calls on the same
\* lecture the store holds at most one PracticeRecommendation row per
\* (lecture, question) pair: attaching again does not duplicate rows.
C27_ReattachKeepsPairsUnique ==
    [][(/\ resp'.op = "attach_topics_to_lecture"
        /\ PairsUnique(recommendations))
          => PairsUnique(recommendations')]_vars

\* C28: generate_lecture_recommendations is all-or-nothing: on a storage
\* failure it returns 0 and none of the rows of that call remain in the
\* store, and when it returns n > 0 for a lecture with linked topics exactly
\* n new rows are committed.
C28_AllOrNothing ==
    [][resp'.op = "generate_lecture_recommendations" =>
          /\ resp'.failed =>
                /\ resp'.value = 0
                /\ recommendations' = recommendations
          /\ (/\ resp'.value > 0
              /\ LinkedTopics(lecture_topics, resp'.lecture_id) # {})
                => /\ recommendations' = recommendations \o resp'.list
                   /\ Len(resp'.list) = resp'.value]_vars

\* a call failed after adding rows to its session, and the store holds no
\* row of that lecture
C28_Witness ==
    /\ resp.op = "generate_lecture_recommendations"
    /\ resp.failed
    /\ resp.list # <<>>
    /\ resp.value = 0
    /\ \A k \in DOMAIN recommendations :
          recommendations[k].lecture_id # resp.lecture_id

\* a call for a lecture with linked topics returned n > 0 and its n rows
\* are the last rows of the store
C28_WitnessCommitted ==
    /\ resp.op = "generate_lecture_recommendations"
    /\ ~resp.failed
    /\ resp.value > 0
    /\ LinkedTopics(lecture_topics, resp.lecture_id) # {}
    /\ Len(recommendations) >= resp.value
    /\ SubSeq(recommendations, Len(recommendations) - resp.value + 1,
              Len(recommendations)) = resp.list

(***************************************************************************)
(* Properties of the submission payload (Spec).                            *)
(***************************************************************************)
\* C30: within one session the response of submit_attempt discloses the
\* solution only for an incorrect attempt numbered 2, an incorrect attempt
\* numbered 1 yields at most the hint, a correct attempt yields neither,
\* attempt_no is the count of prior attempts on the triple plus 1, and
\* attempts_remaining is 2 minus attempt_no and never negative.
C30_SolutionOnlyAfterSecondMiss ==
    [][(resp'.op = "submit_attempt" /\ resp'.status = "ok") =>
          /\ Len(attempts') = Len(attempts) + 1
          /\ LET new == attempts'[Len(attempts')]
                 question == questions[new.question_id]
                 prior == TripleRows(new.student_id, new.question_id, new.session_id)
             IN  /\ resp'.attempt_no = Cardinality(prior) + 1
                 /\ new.attempt_no = resp'.attempt_no
                 /\ resp'.correct = new.is_correct
                 /\ resp'.attempts_remaining = 2 - resp'.attempt_no
                 /\ resp'.attempts_remaining >= 0
                 /\ resp'.solution # "" => (~resp'.correct /\ resp'.attempt_no = 2)
                 /\ (~resp'.correct /\ resp'.attempt_no = 1)
                       => resp'.hint \in {"", question.hint}
                 /\ resp'.correct => (resp'.hint = "" /\ resp'.solution = "")]_vars

\* a second incorrect attempt on a question was answered with the solution
C30_Witness ==
    /\ resp.op = "submit_attempt" /\ resp.status = "ok"
    /\ ~resp.correct
    /\ resp.attempt_no = 2
    /\ resp.attempts_remaining = 0
    /\ resp.solution # ""

\* a first incorrect attempt was answered with the hint and no solution
C30_WitnessHint ==
    /\ resp.op = "submit_attempt" /\ resp.status = "ok"
    /\ ~resp.correct
    /\ resp.attempt_no = 1
    /\ resp.hint # ""
    /\ resp.solution = ""

(***************************************************************************)
(* services/recommendations.py: the personalized read path                 *)
(***************************************************************************)
\* Attempt.query.filter_by(student_id=student_id).all(), as question ids
attempted_question_ids(student_id) ==
    {attempts[i].question_id :
        i \in {j \in DOMAIN attempts : attempts[j].student_id = student_id}}

\* one item of the returned list
Item(question_id, type, priority, lecture_id) ==
    [question_id |-> question_id, type |-> type, priority |-> priority,
     lecture_id |-> lecture_id]

\* seq[:n] for n >= 0
Take(seq, n) == IF Len(seq) <= n THEN seq ELSE SubSeq(seq, 1, n)

RECURSIVE OrderByAccuracy(_)
\* weak_topics.sort(key=accuracy): the orders a stable sort can give to rows
\* that the grouped query returns in any order
OrderByAccuracy(stats) ==
    IF stats = {} THEN {<<>>}
    ELSE UNION {{<<x>> \o rest : rest \in OrderByAccuracy(stats \ {x})} :
                  x \in {y \in stats : \A z \in stats :
                            y.correct * z.total <= z.correct * y.total}}

\* lines 280-318: the (subject, topic) groups with at least 3 attempts since
\* the cutoff date and accuracy below 0.6, lowest accuracy first
_get_student_weak_topics(student_id) ==
    LET cutoff_date == now - 30
        counted(subject, topic, right) ==
            CountIn(attempts, LAMBDA a :
                /\ a.student_id = student_id
                /\ a.created_at >= cutoff_date
                /\ questions[a.question_id].subject = subject
                /\ questions[a.question_id].topic = topic
                /\ right => a.is_correct)
        topic_stats ==
            {[subject |-> questions[q].subject, topic |-> questions[q].topic,
              total |-> counted(questions[q].subject, questions[q].topic, FALSE),
              correct |-> counted(questions[q].subject, questions[q].topic, TRUE)] :
                q \in DOMAIN questions}
        weak_topics == {t \in topic_stats :
                           t.total >= 3 /\ 10 * t.correct < 6 * t.total}
    IN  OrderByAccuracy(weak_topics)

RECURSIVE OrderByPriority(_)
\* order_by(priority, desc(created_at)) over row positions; a row added
\* later has the later created_at
OrderByPriority(rows) ==
    IF rows = {} THEN <<>>
    ELSE LET k == CHOOSE x \in rows : \A y \in rows :
                     \/ recommendations[x].priority < recommendations[y].priority
                     \/ /\ recommendations[x].priority = recommendations[y].priority
                        /\ x >= y
         IN  <<k>> \o OrderByPriority(rows \ {k})

\* the attempted check left out of the loop
_get_lecture_recommendations_unchecked(student_id, limit) ==
    LET pending == {k \in DOMAIN recommendations :
                       questions[recommendations[k].question_id].is_active}
        lecture_recs == Take(OrderByPriority(pending), limit)
    IN  [k \in DOMAIN lecture_recs |->
            Item(recommendations[lecture_recs[k]].question_id, "lecture_followup",
                 recommendations[lecture_recs[k]].priority,
                 recommendations[lecture_recs[k]].lecture_id)]

\* lines 320-362: the first `limit` uncompleted general rows on active
\* questions, less those whose question the student has attempted (no code
\* marks a row completed or gives it a student)
_get_lecture_recommendations(student_id, limit) ==
    LET pending == {k \in DOMAIN recommendations :
                       questions[recommendations[k].question_id].is_active}
        lecture_recs == Take(OrderByPriority(pending), limit)
        fresh == SelectSeq(lecture_recs, LAMBDA k :
                    recommendations[k].question_id
                        \notin attempted_question_ids(student_id))
    IN  [k \in DOMAIN fresh |->
            Item(recommendations[fresh[k]].question_id, "lecture_followup",
                 recommendations[fresh[k]].priority,
                 recommendations[fresh[k]].lecture_id)]

RECURSIVE OrderByDifficulty(_)
\* order_by(Question.difficulty): equal difficulties in any order
OrderByDifficulty(ids) ==
    IF ids = {} THEN {<<>>}
    ELSE UNION {{<<x>> \o rest : rest \in OrderByDifficulty(ids \ {x})} :
                  x \in {y \in ids : \A z \in ids :
                            questions[y].difficulty <= questions[z].difficulty}}

RECURSIVE _get_weak_topic_recommendations(_, _, _)
\* lines 364-405: up to 3 unattempted active questions of each weak topic,
\* easiest first, until `limit` items are collected; the caller's list is
\* already cut to the 3 weakest topics
_get_weak_topic_recommendations(student_id, weak_topics, limit) ==
    IF weak_topics = <<>> \/ limit <= 0 THEN {<<>>}
    ELSE LET weak_topic == Head(weak_topics)
             found == {q \in DOMAIN questions :
                          /\ questions[q].subject = weak_topic.subject
                          /\ questions[q].topic = weak_topic.topic
                          /\ questions[q].is_active
                          /\ q \notin attempted_question_ids(student_id)}
             room == IF limit < 3 THEN limit ELSE 3
         IN  UNION {{[k \in DOMAIN taken |-> Item(taken[k], "weak_topic", 1, None)]
                        \o rest :
                      rest \in _get_weak_topic_recommendations(student_id,
                                   Tail(weak_topics), limit - Len(taken))} :
                    taken \in {Take(ordered, room) :
                                 ordered \in OrderByDifficulty(found)}}

RECURSIVE Arrangements(_, _)
\* order_by(func.random()).limit(n): any n of the rows in any order
Arrangements(ids, n) ==
    IF ids = {} \/ n <= 0 THEN {<<>>}
    ELSE UNION {{<<x>> \o rest : rest \in Arrangements(ids \ {x}, n - 1)} :
                  x \in ids}

\* lines 407-450: unattempted active questions of difficulty 2 or 3 from up
\* to two of the subjects the student has practiced (Physics and Chemistry
\* when there is none), in random order
_get_general_recommendations(student_id, limit) ==
    LET practiced == {questions[q].subject : q \in attempted_question_ids(student_id)}
        recent_subjects == IF practiced = {} THEN {{"Physics", "Chemistry"}}
                           ELSE Limit(practiced, 2)
    IN  UNION {LET found == {q \in DOMAIN questions :
                                /\ questions[q].subject \in subjects
                                /\ questions[q].is_active
                                /\ q \notin attempted_question_ids(student_id)
                                /\ questions[q].difficulty \in 2..3}
               IN  {[k \in DOMAIN chosen |-> Item(chosen[k], "general", 3, None)] :
                      chosen \in Arrangements(found, limit)}
               : subjects \in recent_subjects}

\* lines 77-117: the lists the call can return
get_personalized_recommendations(student_id, limit) ==
    LET lecture_recs == _get_lecture_recommendations(student_id, limit \div 2)
        after_lecture == limit - Len(lecture_recs)
        weak_lists ==
            UNION {IF after_lecture > 0 /\ weak_topics # <<>>
                   THEN _get_weak_topic_recommendations(student_id,
                            Take(weak_topics, 3), after_lecture)
                   ELSE {<<>>} :
                   weak_topics \in _get_student_weak_topics(student_id)}
    IN  UNION {LET remaining_limit == limit - Len(lecture_recs) - Len(weak)
               IN  {Take(lecture_recs \o weak \o general, limit) :
                      general \in IF remaining_limit > 0
                                  THEN _get_general_recommendations(student_id,
                                           remaining_limit)
                                  ELSE {<<>>}}
               : weak \in weak_lists}

PersonalRunLens == {3}               \* three attempts make a topic countable
PersonalLimits == {0, 1, 2, 10}      \* the limit of the request, default 10
MaxFollowUps == 2   \* rows in the store beyond which no lecture is tagged

\* the attach requests made before the list is read: a Physics topic for
\* lecture 1, and the same topic with a Chemistry one for lecture 2
PersonalAttachCalls == {<<1, {1}>>, <<2, {1, 3}>>}

\* GET /students/recommendations?type=personalized
EnginePersonalizedRecommendations ==
    /\ \E limit \in PersonalLimits :
       \E list \in get_personalized_recommendations(1, limit) :
            resp' = [NoResp EXCEPT !.op = "get_personalized_recommendations",
                        !.student_id = 1, !.limit = limit, !.list = list]
    /\ UNCHANGED <<questions, gamification, lecture_topics, recommendations,
                   sessions, attempts, summaries, now, req>>

PersonalNext ==
    \/ \E call \in PersonalAttachCalls :
          /\ Len(recommendations) < MaxFollowUps
          /\ attach_topics_to_lecture(call[1], call[2], TRUE)
    \/ EnginePersonalizedRecommendations

PersonalSpec == HistoryInit(PersonalRunLens, TRUE) /\ [][PersonalNext]_vars

(***************************************************************************)
(* Properties of the personalized list (PersonalSpec).                     *)
(***************************************************************************)
\* the rank of a recommendation class in the returned list
ClassRank(type) ==
    CASE type = "lecture_followup" -> 1
      [] type = "weak_topic" -> 2
      [] type = "general" -> 3

Attempted(student_id, q) ==
    \E i \in DOMAIN attempts : /\ attempts[i].student_id = student_id
                               /\ attempts[i].question_id = q

\* C25: for every student and limit, get_personalized_recommendations
\* returns at most limit items, lecture follow-up items first, then
\* weak-topic items, then general items, and no item of any class is a
\* question the student has already attempted.
C25_BoundedOrderedUnattempted ==
    resp.op = "get_personalized_recommendations" =>
        /\ Len(resp.list) <= resp.limit
        /\ \A i, j \in DOMAIN resp.list :
              i < j => ClassRank(resp.list[i].type) <= ClassRank(resp.list[j].type)
        /\ \A k \in DOMAIN resp.list :
              ~Attempted(resp.student_id, resp.list[k].question_id)

\* a list with an item of each class is returned to a student who has
\* attempted the question of a pending lecture follow-up
C25_Witness ==
    /\ resp.op = "get_personalized_recommendations"
    /\ \A type \in {"lecture_followup", "weak_topic", "general"} :
          \E k \in DOMAIN resp.list : resp.list[k].type = type
    /\ \E k \in DOMAIN recommendations :
          Attempted(resp.student_id, recommendations[k].question_id)

\* the list is cut at the limit while more candidates exist
C25_WitnessCut ==
    /\ resp.op = "get_personalized_recommendations"
    /\ resp.limit = 1
    /\ Len(resp.list) = 1
    /\ \E q \in DOMAIN questions :
          /\ q # resp.list[1].question_id
          /\ questions[q].is_active
          /\ questions[q].difficulty \in 2..3
          /\ ~Attempted(resp.student_id, q)

\* C29: the list returned by get_personalized_recommendations contains no
\* question id twice, also when two lectures recommend the same question or
\* when a question is both a pending lecture follow-up and an unattempted
\* question of a weak topic or of a recently practiced subject.
C29_NoQuestionTwice ==
    resp.op = "get_personalized_recommendations" =>
        \A i, j \in DOMAIN resp.list :
            resp.list[i].question_id = resp.list[j].question_id => i = j

\* the question of two lecture rows is listed twice as a follow-up
C29_TwiceFromLectures ==
    /\ resp.op = "get_personalized_recommendations"
    /\ \E i, j \in DOMAIN resp.list :
          /\ i < j
          /\ resp.list[i].question_id = resp.list[j].question_id
          /\ resp.list[i].type = "lecture_followup"
          /\ resp.list[j].type = "lecture_followup"
          /\ resp.list[i].lecture_id # resp.list[j].lecture_id

\* a pending follow-up is listed again as a weak-topic question
C29_TwiceFromLectureAndTopic ==
    /\ resp.op = "get_personalized_recommendations"
    /\ \E i, j \in DOMAIN resp.list :
          /\ resp.list[i].question_id = resp.list[j].question_id
          /\ resp.list[i].type = "lecture_followup"
          /\ resp.list[j].type = "weak_topic"

====
